---- MODULE Spec2Model ----
(***************************************************************************)
(* Verification model of the Nexus NFT platform (irvansc/nft-nexus):       *)
(*   - generateNFTSymbol            (frontend/src/app/page.tsx)            *)
(*   - the collection contract      (SimpleNFT, driven by the clients)     *)
(*   - the gallery screen and card  (collection/[address]/page.tsx,        *)
(*                                   components/NFTCard.tsx)               *)
(*   - the metadata and upload API  (api/metadata/[tokenId]/route.ts)      *)
(*   - switchNetwork / checkNetwork (frontend/src/app/page.tsx)            *)
(*   - the landing screen Home      (frontend/src/app/page.tsx, part_001)  *)
(*   - Home's wallet subscriptions  (frontend/src/app/page.tsx, part_001)    *)
(*   - the status area              (formatStatusDisplay of both screens)    *)
(*   - the card's transfer form     (components/NFTCard.tsx)                 *)
(*   - the deployment script        (contracts/scripts/deploy.ts)          *)
(* Strings are sequences of one-character strings, so that concatenation,  *)
(* prefix tests, decimal/hex rendering and lexicographic sorting are       *)
(* computed the way the JavaScript runtime computes them.                  *)
(***************************************************************************)
EXTENDS Integers, Sequences, FiniteSets, TLC

VARIABLES
    symName,      \* generateNFTSymbol: the collection name passed in
    symResult,    \* generateNFTSymbol: what the call produced
    chain,        \* the collection contract's storage
    txPending,    \* per client: the transaction it sent that is not yet executed
    lastReceipt,  \* the receipt of the transaction executed last
    mintLog,      \* history: the successful mints in execution order
    gScreen,      \* which screen runs: "gallery" (collection page) or "home" (landing)
    gUser,        \* the screen's userAddress
    nfts,         \* the displayed token list (nfts / ownedNFTs)
    isLoading,    \* gallery screen: isLoading
    isMinting,    \* the busy flag of the mint control
    status,       \* the status text
    procs,        \* the running handlers: page load, mintNFT, handleTransfer
    cards,        \* per token id: the NFTCard instance's state
    lastFetchStep,\* history: the outcome of the last per-token fetch
    faults,       \* history: how many per-token fetches have failed so far
    now,          \* the server clock, Date.now()
    dirExists,    \* whether public/uploads exists
    stored,       \* the files of public/uploads: name, and the upload that wrote it
    posts,        \* per upload request being handled: where its handler stands
    uploads,      \* history: how many uploads have been answered with success
    lastPost,     \* the upload endpoint's last response
    postCount,    \* how many upload requests have been received
    lastGet,      \* the metadata endpoint's last response
    hasEthereum,  \* whether window.ethereum exists
    walletKnows,  \* whether the wallet has the Nexus chain configured
    walletChain,  \* the chain id the wallet is on
    isCorrectNetwork, \* the landing screen's correct-network flag
    netCheckPending,  \* a checkNetwork run queued by mount or by chainChanged
    sw,           \* switchNetwork: where the call stands, the switch error code,
                  \* the chain id read back, the result
    sent,         \* the requests the current switchNetwork call has sent to the wallet
    swCalls,      \* how many times switchNetwork has been called
    variant,      \* which source of Home runs: page.tsx (first, second) or part_001
    home,         \* Home's React state
    homeChain,    \* the chain id the wallet is on while Home or the gallery runs
    dp,           \* deployNFT: where the handler stands, the image it captured, the probe response
    mp,           \* landing mintNFT: where the handler stands, the image it captured, mints done
    net,          \* per write of the current flow: not sent, sent, confirmed or failed
    uploadLog,    \* history: the requests that reached POST /api/upload
    nav,          \* landing, navigating (router.push called), gallery
    deploys,      \* how many times Deploy has been clicked
    gpage,        \* the gallery screen reached by the navigation
    script,       \* deploy.ts: where main stands, the environment, process.exitCode, the exit status
    ethereum,     \* window.ethereum as Home's effect sees it: present, accounts, chain id, listeners
    sess,         \* Home's session state, its memoized callbacks and its mounted effect
    ran,          \* history: the event emitted last and the handlers it ran
    stat,         \* the status area: screen, running action and its phase, hash, Transfer event, status text
    gas,          \* deployNFT's deployment transaction: the source running, the node's gas estimate, the override, the limit sent
    xcard         \* an NFTCard's transfer form: transferAddress, isTransferring, the handleTransfer runs awaiting onTransfer, the calls made, the submissions

symVars == <<symName, symResult>>
chainVars == <<chain, txPending, lastReceipt, mintLog>>

galleryVars == <<gScreen, gUser, nfts, isLoading, isMinting, status, procs, cards,
                 lastFetchStep, faults>>

uploadVars == <<now, dirExists, stored, posts, uploads, lastPost, postCount, lastGet>>

switchVars == <<hasEthereum, walletKnows, walletChain, isCorrectNetwork, netCheckPending,
                sw, sent, swCalls>>

landingVars == <<variant, home, homeChain, dp, mp, net, uploadLog, nav, deploys, gpage>>

scriptVars == <<script>>

sessionVars == <<ethereum, sess, ran>>

statusVars == <<stat>>

gasVars == <<gas>>

cardVars == <<xcard>>

vars == <<symName, symResult, chain, txPending, lastReceipt, mintLog,
          gScreen, gUser, nfts, isLoading, isMinting, status, procs, cards,
          lastFetchStep, faults,
          now, dirExists, stored, posts, uploads, lastPost, postCount, lastGet,
          hasEthereum, walletKnows, walletChain, isCorrectNetwork, netCheckPending,
          sw, sent, swCalls,
          variant, home, homeChain, dp, mp, net, uploadLog, nav, deploys, gpage,
          script,
          ethereum, sess, ran,
          stat,
          gas,
          xcard>>

(***************************************************************************)
(* Bounds                                                                  *)
(***************************************************************************)
MaxNameLen == 5
MaxSupply == 3
MaxGallerySupply == 2
MaxInitSupply == 1
MaxFaults == 1
ClockStart == 9
ClockEnd == 11
MaxPosts == 2
MaxCalls == 2
MaxDeploys == 1
MaxUploads == 2
MaxHomeMints == 1

(***************************************************************************)
(* Characters and strings                                                  *)
(***************************************************************************)
LowerLetters == {"a", "b", "c", "e"}
UpperLetters == {"A", "B", "C", "D", "E"}

\* String.prototype.toUpperCase, one character at a time
toUpperCase(c) ==
    CASE c = "a" -> "A"
      [] c = "b" -> "B"
      [] c = "c" -> "C"
      [] c = "e" -> "E"
      [] OTHER -> c

\* the regular-expression class \w
IsWordChar(c) == c \in LowerLetters \cup UpperLetters

\* the regular-expression class \s
IsSpaceChar(c) == c = " "

\* the regular-expression class [aeiou] under the i flag
IsVowel(c) == c \in {"a", "e", "A", "E"}

\* String.prototype.replace(/[...]/g, ''): drop every character of class Drop
RECURSIVE RemoveChars(_, _)
RemoveChars(s, Drop) ==
    IF s = <<>> THEN <<>>
    ELSE IF Head(s) \in Drop THEN RemoveChars(Tail(s), Drop)
         ELSE <<Head(s)>> \o RemoveChars(Tail(s), Drop)

CharsOf(s) == {s[i] : i \in 1..Len(s)}

MapUpper(s) == [i \in 1..Len(s) |-> toUpperCase(s[i])]

\* String.prototype.slice(0, n)
Slice0(s, n) == SubSeq(s, 1, IF Len(s) < n THEN Len(s) ELSE n)

\* String.prototype.split(/\s+/): every maximal run of whitespace is one
\* separator; a leading or trailing separator yields an empty string, and
\* the empty string splits into one empty string.
RECURSIVE SplitFrom(_, _, _, _)
SplitFrom(s, i, cur, acc) ==
    IF i > Len(s) THEN Append(acc, cur)
    ELSE IF IsSpaceChar(s[i])
         THEN IF i > 1 /\ IsSpaceChar(s[i - 1])
              THEN SplitFrom(s, i + 1, cur, acc)
              ELSE SplitFrom(s, i + 1, <<>>, Append(acc, cur))
         ELSE SplitFrom(s, i + 1, Append(cur, s[i]), acc)

splitWhitespace(s) == SplitFrom(s, 1, <<>>, <<>>)

(***************************************************************************)
(* Decimal rendering (BigInt / Number toString, Solidity Strings.toString) *)
(***************************************************************************)
Digit(d) ==
    CASE d = 0 -> "0" [] d = 1 -> "1" [] d = 2 -> "2" [] d = 3 -> "3"
      [] d = 4 -> "4" [] d = 5 -> "5" [] d = 6 -> "6" [] d = 7 -> "7"
      [] d = 8 -> "8" [] d = 9 -> "9"

RECURSIVE ToDecimal(_)
ToDecimal(n) ==
    IF n < 10 THEN <<Digit(n)>>
    ELSE ToDecimal(n \div 10) \o <<Digit(n % 10)>>

(***************************************************************************)
(* The collection contract                                                 *)
(***************************************************************************)
ZeroAddress == "0x00"
AddrA == "0xAA"
AddrB == "0xBB"

\* the metadata base URIs a deployment hands to setBaseURI
UriOne == <<"h", "t", "t", "p", ":", "/", "/", "h", "/", "a", "p", "i", "/", "m", "e", "t", "a", "d", "a", "t", "a", "/">>
UriTwo == <<"a", "p", "i", "/", "m", "e", "t", "a", "d", "a", "t", "a", "/">>

\* constructor(name, symbol, initialOwner): no token, empty base URI, metadata
\* not frozen
NewCollection(initialOwner) ==
    [owner |-> initialOwner,
     baseURI |-> <<>>,
     totalSupply |-> 0,
     tokenOwner |-> <<>>,
     frozen |-> FALSE]

Minted(ch, tokenId) == tokenId \in 1..ch.totalSupply

Reverted(ch, reason) == [status |-> reason, chain |-> ch, tokenId |-> 0, events |-> <<>>]

\* mint() numbering tokens from zero (id taken before the increment)
mint_zeroBased(ch, sender) ==
    IF sender # ch.owner THEN Reverted(ch, "Unauthorized")
    ELSE LET id == ch.totalSupply
         IN  [status |-> "ok",
              chain |-> [ch EXCEPT !.totalSupply = id + 1,
                                   !.tokenOwner = Append(ch.tokenOwner, sender)],
              tokenId |-> id,
              events |-> <<[name |-> "Transfer", from |-> ZeroAddress,
                            to |-> sender, tokenId |-> id]>>]

\* mint() without the owner gate
mint_unchecked(ch, sender) ==
    LET id == ch.totalSupply + 1
    IN  [status |-> "ok",
         chain |-> [ch EXCEPT !.totalSupply = id,
                              !.tokenOwner = Append(ch.tokenOwner, sender)],
         tokenId |-> id,
         events |-> <<[name |-> "Transfer", from |-> ZeroAddress,
                       to |-> sender, tokenId |-> id]>>]

\* mint(): owner only; the next sequential id goes to the caller
mint(ch, sender) ==
    IF sender # ch.owner THEN Reverted(ch, "Unauthorized")
    ELSE LET id == ch.totalSupply + 1
         IN  [status |-> "ok",
              chain |-> [ch EXCEPT !.totalSupply = id,
                                   !.tokenOwner = Append(ch.tokenOwner, sender)],
              tokenId |-> id,
              events |-> <<[name |-> "Transfer", from |-> ZeroAddress,
                            to |-> sender, tokenId |-> id]>>]

\* setBaseURI without the frozen check
setBaseURI_ignoresFreeze(ch, sender, uri) ==
    IF sender # ch.owner THEN Reverted(ch, "Unauthorized")
    ELSE [status |-> "ok",
          chain |-> [ch EXCEPT !.baseURI = uri],
          tokenId |-> 0,
          events |-> <<[name |-> "BatchMetadataUpdate", from |-> ZeroAddress,
                        to |-> ZeroAddress, tokenId |-> 0]>>]

\* setBaseURI(uri): owner only, and only while the metadata is not frozen
setBaseURI(ch, sender, uri) ==
    IF sender # ch.owner THEN Reverted(ch, "Unauthorized")
    ELSE IF ch.frozen THEN Reverted(ch, "Frozen")
    ELSE [status |-> "ok",
          chain |-> [ch EXCEPT !.baseURI = uri],
          tokenId |-> 0,
          events |-> <<[name |-> "BatchMetadataUpdate", from |-> ZeroAddress,
                        to |-> ZeroAddress, tokenId |-> 0]>>]

\* the metadata freeze: owner only, one-way
freezeMetadata(ch, sender) ==
    IF sender # ch.owner THEN Reverted(ch, "Unauthorized")
    ELSE [status |-> "ok",
          chain |-> [ch EXCEPT !.frozen = TRUE],
          tokenId |-> 0,
          events |-> <<>>]

\* transferFrom(from, to, tokenId): by the token's current owner
transferFrom(ch, sender, from, to, tokenId) ==
    IF ~Minted(ch, tokenId) THEN Reverted(ch, "NotFound")
    ELSE IF to = ZeroAddress THEN Reverted(ch, "InvalidInput")
    ELSE IF ch.tokenOwner[tokenId] # from \/ sender # from
         THEN Reverted(ch, "Unauthorized")
    ELSE [status |-> "ok",
          chain |-> [ch EXCEPT !.tokenOwner[tokenId] = to],
          tokenId |-> tokenId,
          events |-> <<[name |-> "Transfer", from |-> from,
                        to |-> to, tokenId |-> tokenId]>>]

\* tokenURI joining base and id with a "/" separator
tokenURI_separator(ch, tokenId) ==
    IF ~Minted(ch, tokenId) THEN [kind |-> "NotFound", value |-> <<>>]
    ELSE [kind |-> "ok", value |-> ch.baseURI \o <<"/">> \o ToDecimal(tokenId)]

\* tokenURI(tokenId): baseURI followed by the decimal id, no separator
tokenURI(ch, tokenId) ==
    IF ~Minted(ch, tokenId) THEN [kind |-> "NotFound", value |-> <<>>]
    ELSE [kind |-> "ok", value |-> ch.baseURI \o ToDecimal(tokenId)]

ownerOf(ch, tokenId) ==
    IF ~Minted(ch, tokenId) THEN [kind |-> "NotFound", value |-> ZeroAddress]
    ELSE [kind |-> "ok", value |-> ch.tokenOwner[tokenId]]

totalSupply(ch) == ch.totalSupply

(***************************************************************************)
(* Clients sending transactions; the chain executes them one at a time     *)
(***************************************************************************)
\* two browser tabs of the owner and one tab of another account
Clients == {"tab1", "tab2", "tab3"}
ClientAddr(c) == IF c = "tab3" THEN AddrB ELSE AddrA

NoTx == [op |-> "none", to |-> ZeroAddress, tokenId |-> 0, uri |-> <<>>]
NoReceipt == [client |-> "none", op |-> "none", status |-> "none", tokenId |-> 0,
              racing |-> FALSE]

PendingMints == Cardinality({c \in Clients : txPending[c].op = "mint"})

ChainInit ==
    /\ chain = NewCollection(AddrA)
    /\ txPending = [c \in Clients |-> NoTx]
    /\ lastReceipt = NoReceipt
    /\ mintLog = <<>>

\* contractWithSigner.mint() sent from a client
SendMint(c) ==
    /\ txPending[c] = NoTx
    /\ chain.totalSupply + PendingMints < MaxSupply
    /\ txPending' = [txPending EXCEPT ![c] = [NoTx EXCEPT !.op = "mint"]]
    /\ UNCHANGED <<chain, lastReceipt, mintLog>>

\* simpleNFT.setBaseURI(baseUri) sent from a client
SendSetBaseURI(c, uri) ==
    /\ txPending[c] = NoTx
    /\ c # "tab2"
    /\ txPending' = [txPending EXCEPT ![c] = [NoTx EXCEPT !.op = "setBaseURI", !.uri = uri]]
    /\ UNCHANGED <<chain, lastReceipt, mintLog>>

\* contractWithSigner.transferFrom(userAddress, to, tokenId) sent from a client
SendTransfer(c, to, tokenId) ==
    /\ txPending[c] = NoTx
    /\ c # "tab2"
    /\ txPending' = [txPending EXCEPT ![c] = [NoTx EXCEPT !.op = "transferFrom",
                                                          !.to = to, !.tokenId = tokenId]]
    /\ UNCHANGED <<chain, lastReceipt, mintLog>>

\* the contract call a pending transaction makes
Apply(ch, c, tx) ==
    CASE tx.op = "mint" -> mint(ch, ClientAddr(c))
      [] tx.op = "setBaseURI" -> setBaseURI(ch, ClientAddr(c), tx.uri)
      [] tx.op = "transferFrom" -> transferFrom(ch, ClientAddr(c), ClientAddr(c), tx.to, tx.tokenId)
      [] tx.op = "freezeMetadata" -> freezeMetadata(ch, ClientAddr(c))

\* the chain includes one pending transaction in a block
Execute(c) ==
    /\ txPending[c] # NoTx
    /\ LET tx == txPending[c]
           r == Apply(chain, c, tx)
       IN  /\ chain' = r.chain
           /\ lastReceipt' = [client |-> c, op |-> tx.op, status |-> r.status,
                              tokenId |-> r.tokenId,
                              racing |-> tx.op = "mint" /\ PendingMints > 1]
           /\ mintLog' = IF tx.op = "mint" /\ r.status = "ok"
                         THEN Append(mintLog,
                                     [tokenId |-> r.events[1].tokenId,
                                      owner |-> ownerOf(r.chain, r.events[1].tokenId).value])
                         ELSE mintLog
    /\ txPending' = [txPending EXCEPT ![c] = NoTx]

\* a transaction of client c executed at once: the calls of a collection's
\* lifetime in the order the chain runs them
Call(c, tx) ==
    /\ LET r == Apply(chain, c, tx)
       IN  /\ chain' = r.chain
           /\ lastReceipt' = [client |-> c, op |-> tx.op, status |-> r.status,
                              tokenId |-> r.tokenId, racing |-> FALSE]
    /\ UNCHANGED <<txPending, mintLog>>

CallMint(c) ==
    /\ chain.totalSupply < MaxSupply
    /\ Call(c, [NoTx EXCEPT !.op = "mint"])

CallSetBaseURI(c, uri) == Call(c, [NoTx EXCEPT !.op = "setBaseURI", !.uri = uri])

CallTransfer(c, to, tokenId) ==
    Call(c, [NoTx EXCEPT !.op = "transferFrom", !.to = to, !.tokenId = tokenId])

CallFreeze(c) == Call(c, [NoTx EXCEPT !.op = "freezeMetadata"])

\* what the clients and the chain leave alone
ChainFrame == UNCHANGED <<symVars, galleryVars, uploadVars, switchVars, landingVars, scriptVars, sessionVars, statusVars, gasVars, cardVars>>

ChainNext ==
    \/ \E c \in Clients : SendMint(c) /\ ChainFrame
    \/ \E c \in Clients, uri \in {UriOne, UriTwo} : SendSetBaseURI(c, uri) /\ ChainFrame
    \/ \E c \in Clients, to \in {AddrA, AddrB, ZeroAddress}, t \in 1..MaxSupply :
          SendTransfer(c, to, t) /\ ChainFrame
    \/ \E c \in Clients : Execute(c) /\ ChainFrame

(***************************************************************************)
(* String helpers used by the screens and the API                          *)
(***************************************************************************)
\* String.prototype.startsWith
startsWith(s, prefix) ==
    Len(s) >= Len(prefix) /\ SubSeq(s, 1, Len(prefix)) = prefix

\* String.prototype.includes
includes(s, sub) ==
    \E k \in 0..(Len(s) - Len(sub)) : SubSeq(s, k + 1, k + Len(sub)) = sub

\* replace(/\/+$/, '')
RECURSIVE StripTrailingSlashes(_)
StripTrailingSlashes(s) ==
    IF s # <<>> /\ s[Len(s)] = "/" THEN StripTrailingSlashes(SubSeq(s, 1, Len(s) - 1))
    ELSE s

\* replace(/^\/+/, '')
RECURSIVE StripLeadingSlashes(_)
StripLeadingSlashes(s) ==
    IF s # <<>> /\ Head(s) = "/" THEN StripLeadingSlashes(Tail(s)) ELSE s

\* String.prototype.toLowerCase on an address
toLowerCase(a) ==
    CASE a = "0xAA" -> "0xaa"
      [] a = "0xBB" -> "0xbb"
      [] OTHER -> a

(***************************************************************************)
(* The gallery: fetchCollectionNFTs, mintNFT, handleTransfer, NFTCard      *)
(***************************************************************************)
\* process.env.NEXT_PUBLIC_API_URL || window.location.origin
ApiBase == <<"h", "t", "t", "p", ":", "/", "/", "h">>

PathHttp == <<"h", "t", "t", "p">>
PathApiMetadata == <<"a", "p", "i", "/", "m", "e", "t", "a", "d", "a", "t", "a", "/">>

NullMetadata == [kind |-> "null", url |-> <<>>]
Json(url) == [kind |-> "json", url |-> url]

\* what can go wrong for one token: the tokenURI read, the HTTP status, the
\* content type of the response, the JSON parse of the body
StepOutcomes == [uri : BOOLEAN, http : BOOLEAN, ctype : BOOLEAN, json : BOOLEAN]
AllOk == [uri |-> TRUE, http |-> TRUE, ctype |-> TRUE, json |-> TRUE]

\* the absolute URL the gallery screen fetches for token i
metadataURL(uri, i) ==
    IF startsWith(uri, PathHttp) THEN uri
    ELSE IF includes(uri, PathApiMetadata)
         THEN StripTrailingSlashes(ApiBase) \o <<"/">> \o StripLeadingSlashes(uri)
         ELSE StripTrailingSlashes(ApiBase) \o <<"/">> \o PathApiMetadata \o ToDecimal(i)

\* one iteration of the gallery screen's loop
galleryEntry(ch, i, steps) ==
    LET r == tokenURI(ch, i)
    IN  IF ~steps.uri \/ r.kind # "ok" THEN [tokenId |-> ToDecimal(i), metadata |-> NullMetadata]
        ELSE IF r.value = <<>> THEN [tokenId |-> ToDecimal(i), metadata |-> NullMetadata]
        ELSE IF ~steps.http THEN [tokenId |-> ToDecimal(i), metadata |-> NullMetadata]
        ELSE IF ~steps.ctype THEN [tokenId |-> ToDecimal(i), metadata |-> NullMetadata]
        ELSE IF ~steps.json THEN [tokenId |-> ToDecimal(i), metadata |-> NullMetadata]
        ELSE [tokenId |-> ToDecimal(i), metadata |-> Json(metadataURL(r.value, i))]

\* one iteration of the landing screen's loop: no URL normalisation and no
\* content-type test
homeEntry(ch, i, steps) ==
    LET r == tokenURI(ch, i)
    IN  IF ~steps.uri \/ r.kind # "ok" THEN [tokenId |-> ToDecimal(i), metadata |-> NullMetadata]
        ELSE IF ~steps.http THEN [tokenId |-> ToDecimal(i), metadata |-> NullMetadata]
        ELSE IF ~steps.json THEN [tokenId |-> ToDecimal(i), metadata |-> NullMetadata]
        ELSE [tokenId |-> ToDecimal(i), metadata |-> Json(r.value)]

fetchEntry(screen, ch, i, steps) ==
    IF screen = "gallery" THEN galleryEntry(ch, i, steps) ELSE homeEntry(ch, i, steps)

Procs == {"load", "mint", "xfer"}

IdleProc == [pc |-> "idle", tx |-> NoTx, mined |-> "none", n |-> 0, i |-> 0, acc |-> <<>>]

NoCard == [pc |-> "none", owner |-> ZeroAddress, isOwner |-> FALSE]
\* of one iteration: did every step succeed, and did the steps the landing
\* screen depends on (tokenURI read, HTTP status, JSON parse) succeed
Summary(steps, supplyRead) ==
    [all |-> steps = AllOk, parsed |-> steps.uri /\ steps.http /\ steps.json,
     supplyRead |-> supplyRead]
NoFetchStep == Summary(AllOk, TRUE)

TokenIds == 1..MaxGallerySupply

ListedIds(list) == {t \in TokenIds : \E k \in 1..Len(list) : list[k].tokenId = ToDecimal(t)}

\* the cards after a render: a card is kept while its key stays in the grid
\* (its effect does not run again), created when its key appears, dropped
\* when the grid no longer shows it
Render(old, list, loading) ==
    [t \in TokenIds |->
        IF loading \/ t \notin ListedIds(list) THEN NoCard
        ELSE IF old[t].pc = "none" THEN [NoCard EXCEPT !.pc = "querying"]
        ELSE old[t]]

\* owner.toLowerCase() === accounts[0]?.address.toLowerCase()
PageIsOwner == toLowerCase(chain.owner) = toLowerCase(gUser)

GalleryInit ==
    /\ gScreen \in {"gallery", "home"}
    /\ gUser \in {AddrA, AddrB}
    /\ gScreen = "home" => gUser = AddrA
    /\ \E k \in 0..MaxInitSupply, uri \in {<<>>, UriOne, UriTwo} :
          \E owners \in [1..k -> {AddrA, AddrB}] :
             \* the landing screen holds the collection it has just deployed
             /\ gScreen = "home" => k = 0 /\ uri \in {<<>>, UriOne}
             /\ chain = [NewCollection(AddrA) EXCEPT !.baseURI = uri, !.totalSupply = k,
                                                     !.tokenOwner = owners]
    /\ nfts = <<>>
    /\ isLoading = TRUE
    /\ isMinting = FALSE
    /\ status = ""
    /\ procs = [p \in Procs |-> IF p = "load" THEN [IdleProc EXCEPT !.pc = "fetchSupply"]
                                 ELSE IdleProc]
    /\ cards = [t \in TokenIds |-> NoCard]
    /\ lastFetchStep = NoFetchStep
    /\ faults = 0

\* the handler p has run to its end: its guaranteed-cleanup code, then the
\* render of the list it may have set
Finish(p, list) ==
    /\ nfts' = list
    /\ isLoading' = IF p = "load" THEN FALSE ELSE isLoading
    /\ isMinting' = IF p = "mint" THEN FALSE ELSE isMinting
    /\ procs' = [procs EXCEPT ![p] = IdleProc]
    /\ cards' = IF gScreen = "gallery"
                 THEN Render(cards, list, IF p = "load" THEN FALSE ELSE isLoading)
                 ELSE cards

\* fetchCollectionNFTs: the totalSupply read
FetchSupply(p) ==
    /\ procs[p].pc = "fetchSupply"
    /\ \E readOk \in BOOLEAN :
          /\ lastFetchStep' = Summary(AllOk, readOk)
          /\ IF ~readOk
             THEN \* outer catch: logged, the list is left as it is
                  Finish(p, nfts)
             ELSE IF totalSupply(chain) = 0
             THEN Finish(p, <<>>)
             ELSE /\ procs' = [procs EXCEPT ![p].pc = "fetchLoop",
                                            ![p].n = totalSupply(chain),
                                            ![p].i = 1,
                                            ![p].acc = <<>>]
                  /\ UNCHANGED <<nfts, isLoading, isMinting, cards>>
    /\ UNCHANGED <<chain, gScreen, gUser, status, faults>>

\* fetchCollectionNFTs: one iteration of the loop; after the last one the
\* list is stored
FetchToken(p) ==
    /\ procs[p].pc = "fetchLoop"
    /\ \E steps \in StepOutcomes :
          LET i == procs[p].i
              acc == Append(procs[p].acc, fetchEntry(gScreen, chain, i, steps))
          IN  /\ steps # AllOk => faults < MaxFaults
              /\ faults' = IF steps = AllOk THEN faults ELSE faults + 1
              /\ lastFetchStep' = Summary(steps, TRUE)
              /\ IF i < procs[p].n
                 THEN /\ procs' = [procs EXCEPT ![p].i = i + 1, ![p].acc = acc]
                      /\ UNCHANGED <<nfts, isLoading, isMinting, cards>>
                 ELSE Finish(p, acc)
    /\ UNCHANGED <<chain, gScreen, gUser, status>>

PendingPageMints == IF procs["mint"].pc \in {"signing", "pending"} THEN 1 ELSE 0

\* mintNFT up to the wallet prompt
MintClick ==
    /\ PageIsOwner
    /\ ~isMinting
    /\ procs["mint"].pc = "idle"
    /\ totalSupply(chain) + PendingPageMints < MaxGallerySupply
    /\ isMinting' = TRUE
    /\ status' = "Initiating NFT mint..."
    /\ procs' = [procs EXCEPT !["mint"].pc = "signing"]
    /\ UNCHANGED <<chain, gScreen, gUser, nfts, isLoading, cards, lastFetchStep, faults>>

\* mintNFT: getSigner() and mint() either go through or are refused
MintSend ==
    /\ procs["mint"].pc = "signing"
    /\ \E accepted \in BOOLEAN :
          IF accepted
          THEN /\ procs' = [procs EXCEPT !["mint"].pc = "pending",
                                         !["mint"].tx = [NoTx EXCEPT !.op = "mint"]]
               /\ status' = "Minting NFT... Transaction"
               /\ UNCHANGED isMinting
          ELSE /\ procs' = [procs EXCEPT !["mint"] = IdleProc]
               /\ status' = "Minting failed"
               /\ isMinting' = FALSE
    /\ UNCHANGED <<chain, gScreen, gUser, nfts, isLoading, cards, lastFetchStep, faults>>

\* the contract call of the transaction handler p sent
PageApply(ch, tx) ==
    CASE tx.op = "mint" -> mint(ch, gUser)
      [] tx.op = "transferFrom" -> transferFrom(ch, gUser, gUser, tx.to, tx.tokenId)

\* the chain executes the transaction handler p is waiting for
TxExecute(p) ==
    /\ procs[p].pc = "pending"
    /\ LET r == PageApply(chain, procs[p].tx)
       IN  /\ chain' = r.chain
           /\ procs' = [procs EXCEPT ![p].pc = "mined", ![p].mined = r.status]
    /\ UNCHANGED <<gScreen, gUser, nfts, isLoading, isMinting, status, cards, lastFetchStep, faults>>

\* mintNFT after tx.wait()
MintReceipt ==
    /\ procs["mint"].pc = "mined"
    /\ IF procs["mint"].mined = "ok"
       THEN /\ status' = "NFT minted successfully!"
            /\ procs' = [procs EXCEPT !["mint"].pc = "fetchSupply"]
            /\ UNCHANGED isMinting
       ELSE /\ status' = "Minting failed"
            /\ procs' = [procs EXCEPT !["mint"] = IdleProc]
            /\ isMinting' = FALSE
    /\ UNCHANGED <<chain, gScreen, gUser, nfts, isLoading, cards, lastFetchStep, faults>>

EntryOf(list, t) == CHOOSE e \in {list[k] : k \in 1..Len(list)} : e.tokenId = ToDecimal(t)

\* what a card renders
ShowsTransfer(t) ==
    /\ cards[t].pc # "none"
    /\ EntryOf(nfts, t).metadata # NullMetadata
    /\ cards[t].isOwner

ShowsOwnedBy(t) ==
    /\ cards[t].pc # "none"
    /\ EntryOf(nfts, t).metadata # NullMetadata
    /\ cards[t].owner # ZeroAddress
    /\ ~cards[t].isOwner

\* the card's Send button: handleTransfer(tokenId, to) up to the wallet prompt
XferClick(t, to) ==
    /\ gScreen = "gallery"
    /\ ShowsTransfer(t)
    /\ procs["xfer"].pc = "idle"
    /\ procs' = [procs EXCEPT !["xfer"].pc = "signing",
                              !["xfer"].tx = [NoTx EXCEPT !.op = "transferFrom",
                                                          !.to = to, !.tokenId = t]]
    /\ UNCHANGED <<chain, gScreen, gUser, nfts, isLoading, isMinting, status, cards,
                   lastFetchStep, faults>>

\* handleTransfer: getSigner() and transferFrom() go through or are refused
XferSend ==
    /\ procs["xfer"].pc = "signing"
    /\ \E accepted \in BOOLEAN :
          procs' = [procs EXCEPT !["xfer"] =
                       IF accepted THEN [@ EXCEPT !.pc = "pending"] ELSE IdleProc]
    /\ UNCHANGED <<chain, gScreen, gUser, nfts, isLoading, isMinting, status, cards,
                   lastFetchStep, faults>>

\* handleTransfer after tx.wait(): refresh on success, log on failure
XferReceipt ==
    /\ procs["xfer"].pc = "mined"
    /\ procs' = [procs EXCEPT !["xfer"] =
                     IF @.mined = "ok" THEN [@ EXCEPT !.pc = "fetchSupply"] ELSE IdleProc]
    /\ UNCHANGED <<chain, gScreen, gUser, nfts, isLoading, isMinting, status, cards,
                   lastFetchStep, faults>>

\* NFTCard's effect: ownerOf (and name) answered, or the read failed
CardQuery(t) ==
    /\ cards[t].pc = "querying"
    /\ \E readOk \in BOOLEAN :
          cards' = [cards EXCEPT ![t] =
                       IF readOk /\ ownerOf(chain, t).kind = "ok"
                       THEN [pc |-> "ready",
                             owner |-> ownerOf(chain, t).value,
                             isOwner |-> toLowerCase(ownerOf(chain, t).value) = toLowerCase(gUser)]
                       ELSE [NoCard EXCEPT !.pc = "failed"]]
    /\ UNCHANGED <<chain, gScreen, gUser, nfts, isLoading, isMinting, status, procs,
                   lastFetchStep, faults>>

\* what a screen leaves alone
GalleryFrame == UNCHANGED <<symVars, txPending, lastReceipt, mintLog, uploadVars, switchVars, landingVars, scriptVars, sessionVars, statusVars, gasVars, cardVars>>

GalleryNext ==
    \/ \E p \in Procs : FetchSupply(p) /\ GalleryFrame
    \/ \E p \in Procs : FetchToken(p) /\ GalleryFrame
    \/ MintClick /\ GalleryFrame
    \/ MintSend /\ GalleryFrame
    \/ \E p \in Procs : TxExecute(p) /\ GalleryFrame
    \/ MintReceipt /\ GalleryFrame
    \/ \E t \in TokenIds, to \in {AddrA, AddrB, ZeroAddress} : XferClick(t, to) /\ GalleryFrame
    \/ XferSend /\ GalleryFrame
    \/ XferReceipt /\ GalleryFrame
    \/ \E t \in TokenIds : CardQuery(t) /\ GalleryFrame

GalleryIdle ==
    /\ gScreen = "gallery"
    /\ gUser = AddrA
    /\ nfts = <<>>
    /\ isLoading = TRUE
    /\ isMinting = FALSE
    /\ status = ""
    /\ procs = [p \in Procs |-> IdleProc]
    /\ cards = [t \in TokenIds |-> NoCard]
    /\ lastFetchStep = NoFetchStep
    /\ faults = 0

ChainIdle ==
    /\ txPending = [c \in Clients |-> NoTx]
    /\ lastReceipt = NoReceipt
    /\ mintLog = <<>>

(***************************************************************************)
(* The upload endpoint and the metadata endpoint                           *)
(***************************************************************************)
\* the characters stored filenames are made of, in ascending UTF-16 code
\* unit order: the order Array.prototype.sort() compares strings by
CodeUnitOrder ==
    <<"-", ".", "0", "1", "2", "3", "4", "5", "6", "7", "8", "9",
      "a", "b", "e", "k", "n", "o", "t">>

codeUnit(c) == CHOOSE i \in 1..Len(CodeUnitOrder) : CodeUnitOrder[i] = c

\* the comparison of Array.prototype.sort() without a comparator
RECURSIVE lessThan(_, _)
lessThan(a, b) ==
    IF a = <<>> THEN b # <<>>
    ELSE IF b = <<>> THEN FALSE
    ELSE IF Head(a) # Head(b) THEN codeUnit(Head(a)) < codeUnit(Head(b))
    ELSE lessThan(Tail(a), Tail(b))

\* Array.prototype.sort()
sort(list) == SortSeq(list, lessThan)

\* Array.prototype.reverse()
reverse(list) == [i \in 1..Len(list) |-> list[Len(list) + 1 - i]]

TypePng == <<"i", "m", "a", "g", "e", "/", "p", "n", "g">>
TypeText == <<"t", "e", "x", "t", "/", "p", "l", "a", "i", "n">>
ImageSlash == <<"i", "m", "a", "g", "e", "/">>
TokenDash == <<"t", "o", "k", "e", "n", "-">>
UploadsSlash == <<"/", "u", "p", "l", "o", "a", "d", "s", "/">>
ApiImageSlash == <<"/", "a", "p", "i", "/", "i", "m", "a", "g", "e", "/">>
NftSlash == <<"/", "n", "f", "t", "/">>
NamePrefix == <<"M", "y", "N", "F", "T", " ", "#">>
DescriptionPrefix == <<"N", "F", "T", " ", "#">>
DescriptionSuffix == <<" ", "o", "n", " ", "t", "h", "e", " ", "N", "e", "x", "u", "s", " ", "n", "e", "t", "w", "o", "r", "k", ".">>

\* process.env.NEXT_PUBLIC_WEBSITE_URL || 'http://localhost:3000'
WebsiteBase == <<"h", "t", "t", "p", ":", "/", "/", "w">>

\* the token ids uploads are tagged with and metadata is requested for
UploadIds == {1, 12}

\* the original names of uploaded files
FileNames == {<<"a">>, <<"b">>}

NoFile == [name |-> <<>>, type |-> <<>>, present |-> FALSE]

\* the multipart forms a client submits: formData.get('file') and
\* formData.get('tokenId'); an absent token id reads as falsy like ''
Forms ==
    [file : {NoFile} \cup [name : FileNames, type : {TypePng, TypeText}, present : {TRUE}],
     tokenId : {<<>>} \cup {ToDecimal(i) : i \in UploadIds}]

Requests == {"r1", "r2"}

\* the collections whose landing screens post uploads
UploadCollections == {"collectionA", "collectionB"}

\* the 'contractAddress' field of the form of request r: r1 is posted by the
\* landing screen that deployed collectionA, r2 by the one that deployed
\* collectionB. POST reads 'file' and 'tokenId' only
contractAddr(r) == IF r = "r1" THEN "collectionA" ELSE "collectionB"

IdlePost == [pc |-> "idle", tokenId |-> <<>>, timestamp |-> 0, name |-> <<>>, filename |-> <<>>]

NoPostResponse == [status |-> 0, success |-> FALSE, filename |-> <<>>, error |-> ""]

ErrorBody(message) == [error |-> message]

NoGetResponse == [tokenId |-> <<>>, status |-> 0, cacheControl |-> "", body |-> ErrorBody("")]

storedName_untagged(tokenId, timestamp, name) == ToDecimal(timestamp) \o <<"-">> \o name

\* `token-${tokenId}-${timestamp}-${file.name}` or `${timestamp}-${file.name}`
storedName(tokenId, timestamp, name) ==
    IF tokenId # <<>>
    THEN TokenDash \o tokenId \o <<"-">> \o ToDecimal(timestamp) \o <<"-">> \o name
    ELSE ToDecimal(timestamp) \o <<"-">> \o name

\* fs.readdirSync(uploadsDir): the names of the stored files, in some order
RECURSIVE readdirSync(_)
readdirSync(dir) ==
    IF dir = {} THEN <<>>
    ELSE LET first == CHOOSE f \in dir : TRUE
         IN  <<first.name>> \o readdirSync(dir \ {first})

NoImage == [found |-> FALSE, path |-> <<>>]

\* findUploadedImage matching `token-${tokenId}` without the closing dash
findUploadedImage_loosePrefix(exists, dir, tokenId) ==
    IF ~exists THEN NoImage
    ELSE LET files == readdirSync(dir)
             tokenFiles == SelectSeq(files, LAMBDA file : startsWith(file, TokenDash \o tokenId))
         IN  IF Len(tokenFiles) = 0 THEN NoImage
             ELSE [found |-> TRUE, path |-> UploadsSlash \o reverse(sort(tokenFiles))[1]]

\* findUploadedImage(tokenId): string | null
findUploadedImage(exists, dir, tokenId) ==
    IF ~exists THEN NoImage
    ELSE LET files == readdirSync(dir)
             tokenFiles == SelectSeq(files, LAMBDA file : startsWith(file, TokenDash \o tokenId \o <<"-">>))
         IN  IF Len(tokenFiles) = 0 THEN NoImage
             ELSE [found |-> TRUE, path |-> UploadsSlash \o reverse(sort(tokenFiles))[1]]

\* validateMetadata: every field truthy, every attribute with a trait name
\* (each value is built as a string or a number)
validateMetadata(metadata) ==
    /\ metadata.name # <<>>
    /\ metadata.description # <<>>
    /\ metadata.image # <<>>
    /\ metadata.external_url # <<>>
    /\ \A i \in 1..Len(metadata.attributes) : metadata.attributes[i].trait_type # ""

CacheForever == "public, max-age=31536000, immutable"

buildMetadata_twoAttributes(tokenId, uploadedImage, clock) ==
    [name |-> NamePrefix \o tokenId,
     description |-> DescriptionPrefix \o tokenId \o DescriptionSuffix,
     image |-> ApiBase \o ApiImageSlash \o tokenId,
     external_url |-> WebsiteBase \o NftSlash \o tokenId,
     attributes |-> <<[trait_type |-> "Token ID", value |-> tokenId],
                      [trait_type |-> "Image Type", value |-> "Generated"]>>]

\* the metadata document GET builds for tokenId at time clock (Date.now())
buildMetadata(tokenId, uploadedImage, clock) ==
    [name |-> NamePrefix \o tokenId,
     description |-> DescriptionPrefix \o tokenId \o DescriptionSuffix,
     image |-> IF uploadedImage.found THEN ApiBase \o uploadedImage.path
               ELSE ApiBase \o ApiImageSlash \o tokenId,
     external_url |-> WebsiteBase \o NftSlash \o tokenId,
     attributes |->
        <<[trait_type |-> "Token ID", value |-> tokenId],
          [trait_type |-> "Image Type",
           value |-> IF uploadedImage.found THEN "Uploaded" ELSE "Generated"],
          [display_type |-> "date", trait_type |-> "Created", value |-> clock \div 1000]>>]

\* GET /api/metadata/[tokenId]; readOk is whether readdirSync returned
GET(exists, dir, tokenId, clock, readOk) ==
    IF exists /\ ~readOk
    THEN [tokenId |-> tokenId, status |-> 500, cacheControl |-> "",
          body |-> ErrorBody("Failed to generate metadata")]
    ELSE LET metadata == buildMetadata(tokenId, findUploadedImage(exists, dir, tokenId), clock)
         IN  IF ~validateMetadata(metadata)
             THEN [tokenId |-> tokenId, status |-> 500, cacheControl |-> "",
                   body |-> ErrorBody("Invalid metadata structure")]
             ELSE [tokenId |-> tokenId, status |-> 200, cacheControl |-> CacheForever,
                   body |-> metadata]

UploadInit ==
    /\ now = ClockStart
    /\ dirExists \in BOOLEAN
    /\ stored = {}
    /\ posts = [r \in Requests |-> IdlePost]
    /\ uploads = 0
    /\ lastPost = NoPostResponse
    /\ postCount = 0
    /\ lastGet = NoGetResponse

\* the server clock advances
Tick ==
    /\ now < ClockEnd
    /\ now' = now + 1
    /\ UNCHANGED <<dirExists, stored, posts, uploads, lastPost, postCount, lastGet>>

\* POST: from the parsed form to the choice of the filename
PostReceive(r, form) ==
    /\ posts[r].pc = "idle"
    /\ postCount < MaxPosts
    /\ postCount' = postCount + 1
    /\ IF ~form.file.present
       THEN /\ lastPost' = [status |-> 400, success |-> FALSE, filename |-> <<>>,
                            error |-> "No file uploaded"]
            /\ UNCHANGED posts
       ELSE IF ~startsWith(form.file.type, ImageSlash)
       THEN /\ lastPost' = [status |-> 400, success |-> FALSE, filename |-> <<>>,
                            error |-> "File must be an image"]
            /\ UNCHANGED posts
       ELSE /\ posts' = [posts EXCEPT ![r] =
                           [pc |-> "write",
                            tokenId |-> form.tokenId,
                            timestamp |-> now,
                            name |-> form.file.name,
                            filename |-> storedName(form.tokenId, now, form.file.name)]]
            /\ UNCHANGED lastPost
    /\ UNCHANGED <<now, dirExists, stored, uploads, lastGet>>

\* POST: mkdir if the directory is missing, writeFile, the response
PostWrite(r) ==
    /\ posts[r].pc = "write"
    /\ \E fail \in {"none", "mkdir", "write"} :
          /\ fail = "mkdir" => ~dirExists
          /\ dirExists' = (dirExists \/ fail # "mkdir")
          /\ IF fail = "none"
             THEN /\ stored' = {f \in stored : f.name # posts[r].filename}
                                 \cup {[name |-> posts[r].filename,
                                        tokenId |-> posts[r].tokenId,
                                        timestamp |-> posts[r].timestamp]}
                  /\ uploads' = uploads + 1
                  /\ lastPost' = [status |-> 200, success |-> TRUE,
                                  filename |-> UploadsSlash \o posts[r].filename,
                                  error |-> ""]
             ELSE /\ lastPost' = [status |-> 500, success |-> FALSE, filename |-> <<>>,
                                  error |-> "Upload failed"]
                  /\ UNCHANGED <<stored, uploads>>
    /\ posts' = [posts EXCEPT ![r] = IdlePost]
    /\ UNCHANGED <<now, postCount, lastGet>>

\* a metadata request for tokenId: the handler has no await and answers in
\* one step
GetRequest(tokenId) ==
    /\ \E readOk \in BOOLEAN :
          lastGet' = GET(dirExists, stored, tokenId, now, readOk)
    /\ UNCHANGED <<now, dirExists, stored, posts, uploads, lastPost, postCount>>

\* what the endpoints leave alone
UploadFrame == UNCHANGED <<symVars, chainVars, galleryVars, switchVars, landingVars, scriptVars, sessionVars, statusVars, gasVars, cardVars>>

UploadNext ==
    \/ Tick /\ UploadFrame
    \/ \E r \in Requests, form \in Forms : PostReceive(r, form) /\ UploadFrame
    \/ \E r \in Requests : PostWrite(r) /\ UploadFrame
    \/ \E i \in UploadIds : GetRequest(ToDecimal(i)) /\ UploadFrame

UploadIdle ==
    /\ now = ClockStart
    /\ dirExists = FALSE
    /\ stored = {}
    /\ posts = [r \in Requests |-> IdlePost]
    /\ uploads = 0
    /\ lastPost = NoPostResponse
    /\ postCount = 0
    /\ lastGet = NoGetResponse

(***************************************************************************)
(* The wallet network: checkNetwork and switchNetwork                      *)
(***************************************************************************)
CHAIN_ID_DECIMAL == 393
NEXUS_RPC_URL == "https://rpc.nexus.xyz/http"

HexDigit(d) ==
    CASE d < 10 -> Digit(d)
      [] d = 10 -> "a" [] d = 11 -> "b" [] d = 12 -> "c"
      [] d = 13 -> "d" [] d = 14 -> "e" [] d = 15 -> "f"

\* Number.prototype.toString(16)
RECURSIVE toString16(_)
toString16(n) ==
    IF n < 16 THEN <<HexDigit(n)>>
    ELSE toString16(n \div 16) \o <<HexDigit(n % 16)>>

NEXUS_CHAIN_ID_HEX == <<"0", "x">> \o toString16(CHAIN_ID_DECIMAL)

\* the chain a wallet is on before it has been switched
OtherChainHex == <<"0", "x", "1">>

NoCurrency == [name |-> "", symbol |-> "", decimals |-> 0]

NoParams == [chainId |-> <<>>, rpcUrls |-> <<>>, chainName |-> "", nativeCurrency |-> NoCurrency]

ChainIdRequest == [method |-> "eth_chainId", params |-> NoParams]

SwitchRequest ==
    [method |-> "wallet_switchEthereumChain",
     params |-> [chainId |-> NEXUS_CHAIN_ID_HEX, rpcUrls |-> <<>>, chainName |-> "",
                 nativeCurrency |-> NoCurrency]]

AddRequest ==
    [method |-> "wallet_addEthereumChain",
     params |-> [chainId |-> NEXUS_CHAIN_ID_HEX,
                 rpcUrls |-> <<NEXUS_RPC_URL>>,
                 chainName |-> "Nexus Testnet",
                 nativeCurrency |-> [name |-> "NEXUS", symbol |-> "NEXUS", decimals |-> 18]]]

\* the error codes a wallet rejects a request with: unrecognized chain, user
\* rejection, request already pending; and those of a failed eth_chainId
UnrecognizedChain == 4902
SwitchErrorCodes == {UnrecognizedChain, 4001, -32002}
ReadErrorCodes == {4900}

SwitchIdleState == [pc |-> "idle", code |-> 0, chainId |-> <<>>, result |-> FALSE]

SwitchInit ==
    /\ hasEthereum \in BOOLEAN
    /\ walletKnows \in BOOLEAN
    /\ walletChain \in {OtherChainHex, NEXUS_CHAIN_ID_HEX}
    /\ walletChain = NEXUS_CHAIN_ID_HEX => walletKnows
    /\ ~hasEthereum => (~walletKnows /\ walletChain = OtherChainHex)
    /\ isCorrectNetwork = FALSE
    /\ netCheckPending \in BOOLEAN
    /\ netCheckPending => hasEthereum
    /\ sw = SwitchIdleState
    /\ sent = <<>>
    /\ swCalls = 0

\* checkNetwork run by the mount effect or by the chainChanged handler
CheckNetworkEvent ==
    /\ netCheckPending
    /\ netCheckPending' = FALSE
    /\ isCorrectNetwork' = (walletChain = NEXUS_CHAIN_ID_HEX)
    /\ UNCHANGED <<hasEthereum, walletKnows, walletChain, sw, sent, swCalls>>

\* the user changes the chain in the wallet: chainChanged is emitted
UserChangesChain(c) ==
    /\ hasEthereum
    /\ c # walletChain
    /\ c = NEXUS_CHAIN_ID_HEX => walletKnows
    /\ walletChain' = c
    /\ netCheckPending' = TRUE
    /\ UNCHANGED <<hasEthereum, walletKnows, isCorrectNetwork, sw, sent, swCalls>>

\* switchNetwork is called: without a provider it returns false, otherwise it
\* sends wallet_switchEthereumChain
SwitchCall ==
    /\ sw.pc \in {"idle", "done"}
    /\ swCalls < MaxCalls
    /\ swCalls' = swCalls + 1
    /\ IF ~hasEthereum
       THEN /\ sw' = [pc |-> "done", code |-> 0, chainId |-> <<>>, result |-> FALSE]
            /\ sent' = <<>>
       ELSE /\ sw' = [pc |-> "switching", code |-> 0, chainId |-> <<>>, result |-> FALSE]
            /\ sent' = <<SwitchRequest>>
    /\ UNCHANGED <<hasEthereum, walletKnows, walletChain, isCorrectNetwork, netCheckPending>>

\* the wallet switches: the request resolves and checkNetwork sends eth_chainId
SwitchResolved ==
    /\ sw.pc = "switching"
    /\ walletKnows
    /\ walletChain' = sent[1].params.chainId
    /\ netCheckPending' = (netCheckPending \/ walletChain' # walletChain)
    /\ sw' = [sw EXCEPT !.pc = "recheck"]
    /\ sent' = Append(sent, ChainIdRequest)
    /\ UNCHANGED <<hasEthereum, walletKnows, isCorrectNetwork, swCalls>>

\* switchNetwork sending wallet_addEthereumChain after any rejection
SwitchRejected_anyCode(code) ==
    /\ sw.pc = "switching"
    /\ code = UnrecognizedChain => ~walletKnows
    /\ sw' = [sw EXCEPT !.pc = "adding", !.code = code]
    /\ sent' = Append(sent, AddRequest)
    /\ UNCHANGED <<hasEthereum, walletKnows, walletChain, isCorrectNetwork,
                   netCheckPending, swCalls>>

\* the wallet rejects the switch: on code 4902 switchNetwork sends
\* wallet_addEthereumChain, on any other code it returns false
SwitchRejected(code) ==
    /\ sw.pc = "switching"
    /\ code = UnrecognizedChain => ~walletKnows
    /\ IF code = 4902
       THEN /\ sw' = [sw EXCEPT !.pc = "adding", !.code = code]
            /\ sent' = Append(sent, AddRequest)
       ELSE /\ sw' = [sw EXCEPT !.pc = "done", !.code = code, !.result = FALSE]
            /\ UNCHANGED sent
    /\ UNCHANGED <<hasEthereum, walletKnows, walletChain, isCorrectNetwork,
                   netCheckPending, swCalls>>

\* the wallet adds the chain (and moves to it unless the user declines):
\* the request resolves and checkNetwork sends eth_chainId
AddResolved ==
    /\ sw.pc = "adding"
    /\ walletKnows' = TRUE
    /\ walletChain' \in {walletChain, sent[2].params.chainId}
    /\ netCheckPending' = (netCheckPending \/ walletChain' # walletChain)
    /\ sw' = [sw EXCEPT !.pc = "recheck"]
    /\ sent' = Append(sent, ChainIdRequest)
    /\ UNCHANGED <<hasEthereum, isCorrectNetwork, swCalls>>

\* the wallet rejects the add request: switchNetwork returns false
AddRejected ==
    /\ sw.pc = "adding"
    /\ sw' = [sw EXCEPT !.pc = "done", !.result = FALSE]
    /\ UNCHANGED <<hasEthereum, walletKnows, walletChain, isCorrectNetwork,
                   netCheckPending, sent, swCalls>>

\* checkNetwork inside switchNetwork: eth_chainId answers, the flag is set
\* and switchNetwork returns the comparison
ChainIdResolved ==
    /\ sw.pc = "recheck"
    /\ LET chainId == walletChain
           isNexus == chainId = NEXUS_CHAIN_ID_HEX
       IN  /\ isCorrectNetwork' = isNexus
           /\ sw' = [sw EXCEPT !.pc = "done", !.chainId = chainId, !.result = isNexus]
    /\ UNCHANGED <<hasEthereum, walletKnows, walletChain, netCheckPending, sent, swCalls>>

\* checkNetwork inside switchNetwork: eth_chainId fails; the enclosing catch
\* (the outer one, which tests the code, after a switch; the inner one after
\* an add) returns false
ChainIdRejected(code) ==
    /\ sw.pc = "recheck"
    /\ IF sw.code # UnrecognizedChain /\ code = 4902
       THEN /\ sw' = [sw EXCEPT !.pc = "adding", !.code = code]
            /\ sent' = Append(sent, AddRequest)
       ELSE /\ sw' = [sw EXCEPT !.pc = "done", !.result = FALSE]
            /\ UNCHANGED sent
    /\ UNCHANGED <<hasEthereum, walletKnows, walletChain, isCorrectNetwork,
                   netCheckPending, swCalls>>

\* what the wallet and the network handlers leave alone
SwitchFrame == UNCHANGED <<symVars, chainVars, galleryVars, uploadVars, landingVars, scriptVars, sessionVars, statusVars, gasVars, cardVars>>

SwitchNext ==
    \/ CheckNetworkEvent /\ SwitchFrame
    \/ \E c \in {OtherChainHex, NEXUS_CHAIN_ID_HEX} : UserChangesChain(c) /\ SwitchFrame
    \/ SwitchCall /\ SwitchFrame
    \/ SwitchResolved /\ SwitchFrame
    \/ \E code \in SwitchErrorCodes : SwitchRejected(code) /\ SwitchFrame
    \/ AddResolved /\ SwitchFrame
    \/ AddRejected /\ SwitchFrame
    \/ ChainIdResolved /\ SwitchFrame
    \/ \E code \in ReadErrorCodes : ChainIdRejected(code) /\ SwitchFrame

SwitchIdle ==
    /\ hasEthereum = TRUE
    /\ walletKnows = FALSE
    /\ walletChain = OtherChainHex
    /\ isCorrectNetwork = FALSE
    /\ netCheckPending = FALSE
    /\ sw = SwitchIdleState
    /\ sent = <<>>
    /\ swCalls = 0

(***************************************************************************)
(* The landing screen (Home): image staging, deployNFT, mintNFT,           *)
(* disconnectWallet, and the gallery screen it navigates to                *)
(***************************************************************************)

\* the three sources of Home: page.tsx 62-1037, page.tsx 1086-1885, part_001
Variants == {"pageA", "pageB", "part001"}

Null == "null"
Deployed == "0xC0"
File == "file"
Preview == "preview"

Falsy(v) == v \in {Null, ""}

\* the useState initial values
InitialHome(v) ==
    [isConnected |-> FALSE,
     isCorrectNetwork |-> FALSE,
     userAddress |-> "",
     status |-> "",
     contractAddress |-> IF v = "pageB" THEN Null ELSE "",
     uploadedImage |-> Null,
     previewUrl |-> Null,
     nftContract |-> Null,
     isMinting |-> FALSE,
     ownedNFTs |-> 0,
     isAccountMenuOpen |-> FALSE]

\* a chain write of the screen: not sent, sent, or executed with its receipt
TxStates == {"none", "sent", "confirmed", "failed"}
WriteOps == {"deploy", "setBaseURI", "mint", "transfer", "galleryMint"}
NoWrites == [op \in WriteOps |-> "none"]

\* probe: the response the probe of the current (or last failed) run got
IdleDeploy == [pc |-> "idle", image |-> Null, probe |-> "none"]
IdleHomeMint == [pc |-> "idle", image |-> Null, count |-> 0]
Unmounted == [pc |-> "unmounted", isOwner |-> FALSE, isMinting |-> FALSE, mint |-> "idle"]

\* what the probe fetch can come back with
ProbeResponses == {"networkError", "200", "400", "500"}

\* pageB, part001: !ok && status !== 400 throws; pageA: !ok throws
ProbeOk_anyResponse(v, resp) == resp # "networkError"

ProbeOk(v, resp) ==
    IF v = "pageA" THEN resp = "200" ELSE resp \in {"200", "400"}

LandingInit ==
    /\ variant \in Variants
    /\ home = InitialHome(variant)
    /\ homeChain \in {NEXUS_CHAIN_ID_HEX, OtherChainHex}
    /\ dp = IdleDeploy
    /\ mp = IdleHomeMint
    /\ net = NoWrites
    /\ uploadLog = <<>>
    /\ nav = "landing"
    /\ deploys = 0
    /\ gpage = Unmounted

Mounted == nav # "gallery"

\* the main panel shows the deploy form / the mint controls
ShowsDeployForm ==
    Mounted /\ home.isConnected /\ home.isCorrectNetwork /\ Falsy(home.contractAddress)

ShowsMintControls ==
    Mounted /\ home.isConnected /\ home.isCorrectNetwork /\ ~Falsy(home.contractAddress)

\* the write controls as the screens render them
OffersDeploy == ShowsDeployForm /\ home.uploadedImage # Null

OffersHomeMint == ShowsMintControls /\ ~home.isMinting

OffersHomeTransfer == Mounted /\ home.ownedNFTs > 0 /\ home.nftContract # Null

OffersGalleryMint == gpage.pc = "ready" /\ gpage.isOwner /\ ~gpage.isMinting

\* connectWallet: eth_requestAccounts, then checkNetwork
connectWallet ==
    /\ Mounted
    /\ ~home.isConnected
    /\ home' = [home EXCEPT !.userAddress = AddrA,
                            !.isConnected = TRUE,
                            !.isCorrectNetwork = (homeChain = NEXUS_CHAIN_ID_HEX)]
    /\ UNCHANGED <<variant, homeChain, dp, mp, net, uploadLog, nav, deploys, gpage>>

\* the user changes the chain in the wallet (or accepts switchNetwork's
\* request); a mounted Home hears chainChanged and runs checkNetwork, the
\* gallery screen registers no listener
WalletChainChanged(c) ==
    /\ c # homeChain
    /\ homeChain' = c
    /\ home' = IF Mounted THEN [home EXCEPT !.isCorrectNetwork = (c = NEXUS_CHAIN_ID_HEX)]
               ELSE home
    /\ UNCHANGED <<variant, dp, mp, net, uploadLog, nav, deploys, gpage>>

\* one request to POST /api/upload
UploadRequest(tokenId) == [tokenId |-> tokenId, confirmed |-> net["deploy"] = "confirmed"]

\* handleDrop / handleFileSelect.  pageB and part001 stage the file; pageA
\* calls handleImageUpload(file), which posts it at once
StageImage ==
    /\ ShowsDeployForm
    /\ IF variant = "pageA"
       THEN /\ Len(uploadLog) < MaxUploads
            /\ uploadLog' = Append(uploadLog, UploadRequest(<<>>))
            /\ \E ok \in BOOLEAN :
                  home' = IF ok THEN [home EXCEPT !.uploadedImage = File,
                                                  !.previewUrl = Preview,
                                                  !.status = "Image uploaded successfully"]
                          ELSE [home EXCEPT !.uploadedImage = Null,
                                            !.previewUrl = Null,
                                            !.status = "Upload failed"]
       ELSE /\ home' = [home EXCEPT !.uploadedImage = File, !.previewUrl = Preview]
            /\ UNCHANGED uploadLog
    /\ UNCHANGED <<variant, homeChain, dp, mp, net, nav, deploys, gpage>>

\* deployNFT's catch and finally.  pageB, part001: status, rethrow, and the
\* finally clears the busy flag; pageA: status and the contract state cleared
DeployFailed_keepsFlag(h) == [h EXCEPT !.status = "Deployment failed"]

DeployFailed(h) ==
    IF variant = "pageA"
    THEN [h EXCEPT !.status = "Error", !.contractAddress = "", !.nftContract = Null]
    ELSE [h EXCEPT !.status = "Deployment failed", !.isMinting = FALSE]

\* the Deploy button: enabled by a staged image (and a name), not by the flag
DeployClick ==
    /\ OffersDeploy
    /\ dp.pc = "idle"
    /\ deploys < MaxDeploys
    /\ deploys' = deploys + 1
    /\ net' = [net EXCEPT !["deploy"] = "none", !["setBaseURI"] = "none"]
    /\ dp' = [pc |-> "probe", image |-> home.uploadedImage, probe |-> "none"]
    /\ home' = IF variant = "pageA" THEN home
               ELSE [home EXCEPT !.isMinting = TRUE, !.status = "Validating configuration..."]
    /\ UNCHANGED <<variant, homeChain, mp, uploadLog, nav, gpage>>

\* the probe of the API base URL: /api/image/1 (pageB, part001) or
\* /api/metadata/1 (pageA)
DeployProbe(resp) ==
    /\ dp.pc = "probe"
    /\ IF ProbeOk(variant, resp)
       THEN /\ dp' = [dp EXCEPT !.pc = "prepare", !.probe = resp]
            /\ home' = [home EXCEPT !.status = "Loading contract artifact..."]
       ELSE /\ dp' = [IdleDeploy EXCEPT !.probe = resp]
            /\ home' = DeployFailed(home)
    /\ UNCHANGED <<variant, homeChain, mp, net, uploadLog, nav, deploys, gpage>>

\* the contract artifact is fetched and the signer obtained
DeployPrepare ==
    /\ dp.pc = "prepare"
    /\ \E ok \in BOOLEAN :
          IF ok
          THEN /\ dp' = [dp EXCEPT !.pc = "send"]
               /\ home' = [home EXCEPT !.status = "Deploying NFT contract..."]
          ELSE /\ dp' = IdleDeploy
               /\ home' = DeployFailed(home)
    /\ UNCHANGED <<variant, homeChain, mp, net, uploadLog, nav, deploys, gpage>>

\* factory.deploy(name, symbol, owner): the wallet sends it or refuses
DeploySend ==
    /\ dp.pc = "send"
    /\ \E accepted \in BOOLEAN :
          IF accepted
          THEN /\ dp' = [dp EXCEPT !.pc = "waitDeploy"]
               /\ net' = [net EXCEPT !["deploy"] = "sent"]
               /\ home' = [home EXCEPT !.status = "Deploying NFT contract... Transaction"]
          ELSE /\ dp' = IdleDeploy
               /\ home' = DeployFailed(home)
               /\ UNCHANGED net
    /\ UNCHANGED <<variant, homeChain, mp, uploadLog, nav, deploys, gpage>>

\* the chain executes a transaction that was sent
ChainConfirms(op) ==
    /\ net[op] = "sent"
    /\ \E result \in {"confirmed", "failed"} : net' = [net EXCEPT ![op] = result]
    /\ UNCHANGED <<variant, home, homeChain, dp, mp, uploadLog, nav, deploys, gpage>>

\* waitForDeployment() and deployTx2.wait() have resolved or thrown
DeployReceipt ==
    /\ dp.pc = "waitDeploy"
    /\ net["deploy"] \in {"confirmed", "failed"}
    /\ IF net["deploy"] = "confirmed"
       THEN dp' = [dp EXCEPT !.pc = "setBaseURI"] /\ UNCHANGED home
       ELSE dp' = IdleDeploy /\ home' = DeployFailed(home)
    /\ UNCHANGED <<variant, homeChain, mp, net, uploadLog, nav, deploys, gpage>>

\* await simpleNFT.setBaseURI(baseUri): resolves once the transaction is
\* sent; the flow does not wait for its receipt
DeploySetBaseURI ==
    /\ dp.pc = "setBaseURI"
    /\ \E accepted \in BOOLEAN :
          IF accepted
          THEN /\ net' = [net EXCEPT !["setBaseURI"] = "sent"]
               /\ IF variant # "pageA" /\ dp.image # Null
                  THEN /\ dp' = [dp EXCEPT !.pc = "upload"]
                       /\ home' = [home EXCEPT !.status = "Uploading image..."]
                  ELSE /\ dp' = [dp EXCEPT !.pc = "record"]
                       /\ UNCHANGED home
          ELSE /\ dp' = IdleDeploy
               /\ home' = DeployFailed(home)
               /\ UNCHANGED net
    /\ UNCHANGED <<variant, homeChain, mp, uploadLog, nav, deploys, gpage>>

\* pageB, part001: the staged image is posted with tokenId '1'
DeployUpload ==
    /\ dp.pc = "upload"
    /\ Len(uploadLog) < MaxUploads
    /\ uploadLog' = Append(uploadLog, UploadRequest(<<"1">>))
    /\ \E ok \in BOOLEAN :
          IF ok
          THEN dp' = [dp EXCEPT !.pc = "record"] /\ UNCHANGED home
          ELSE dp' = IdleDeploy /\ home' = DeployFailed(home)
    /\ UNCHANGED <<variant, homeChain, mp, net, nav, deploys, gpage>>

\* setContractAddress, setNftContract, the success status, router.push,
\* and the finally
DeployRecord ==
    /\ dp.pc = "record"
    /\ dp' = IdleDeploy
    /\ home' = [home EXCEPT !.contractAddress = Deployed,
                            !.nftContract = Deployed,
                            !.status = "deployed successfully",
                            !.isMinting = IF variant = "pageA" THEN @ ELSE FALSE]
    /\ nav' = IF nav = "landing" THEN "navigating" ELSE nav
    /\ UNCHANGED <<variant, homeChain, mp, net, uploadLog, deploys, gpage>>

\* mintNFT's catch and finally
HomeMintFailed(h) == [h EXCEPT !.status = "Minting failed", !.isMinting = FALSE]

\* the Mint NFT button (disabled while isMinting) up to the wallet prompt
HomeMintClick ==
    /\ OffersHomeMint
    /\ mp.pc = "idle"
    /\ mp.count < MaxHomeMints
    /\ IF home.nftContract = Null
       THEN /\ home' = [home EXCEPT !.status = "No NFT contract available"]
            /\ UNCHANGED <<mp, net>>
       ELSE /\ home' = [home EXCEPT !.isMinting = TRUE, !.status = "Initiating NFT mint..."]
            /\ mp' = [mp EXCEPT !.pc = "send", !.image = home.uploadedImage]
            /\ net' = [net EXCEPT !["mint"] = "none"]
    /\ UNCHANGED <<variant, homeChain, dp, uploadLog, nav, deploys, gpage>>

\* mint(): the wallet sends it or refuses
HomeMintSend ==
    /\ mp.pc = "send"
    /\ \E accepted \in BOOLEAN :
          IF accepted
          THEN /\ mp' = [mp EXCEPT !.pc = "waitMint"]
               /\ net' = [net EXCEPT !["mint"] = "sent"]
               /\ home' = [home EXCEPT !.status = "Minting NFT... Transaction"]
          ELSE /\ mp' = [mp EXCEPT !.pc = "idle", !.image = Null]
               /\ home' = HomeMintFailed(home)
               /\ UNCHANGED net
    /\ UNCHANGED <<variant, homeChain, dp, uploadLog, nav, deploys, gpage>>

\* the success status, the refresh of ownedNFTs, and the finally
HomeMintDone(h) ==
    [h EXCEPT !.status = "NFT minted successfully!",
              !.ownedNFTs = mp.count + 1,
              !.isMinting = FALSE]

\* tx.wait() has resolved or thrown.  pageA and part001 go on to post the
\* staged image with the minted token id; pageB does not
HomeMintReceipt ==
    /\ mp.pc = "waitMint"
    /\ net["mint"] \in {"confirmed", "failed"}
    /\ IF net["mint"] = "failed"
       THEN /\ mp' = [mp EXCEPT !.pc = "idle", !.image = Null]
            /\ home' = HomeMintFailed(home)
       ELSE IF variant # "pageB" /\ mp.image # Null
       THEN /\ mp' = [mp EXCEPT !.pc = "upload"]
            /\ home' = [home EXCEPT !.status = "Uploading image..."]
       ELSE /\ mp' = [mp EXCEPT !.pc = "idle", !.image = Null, !.count = @ + 1]
            /\ home' = HomeMintDone(home)
    /\ UNCHANGED <<variant, homeChain, dp, net, uploadLog, nav, deploys, gpage>>

\* handleImageUpload(uploadedImage, tokenId): it catches its own errors
HomeMintUpload ==
    /\ mp.pc = "upload"
    /\ Len(uploadLog) < MaxUploads
    /\ uploadLog' = Append(uploadLog, UploadRequest(ToDecimal(mp.count + 1)))
    /\ mp' = [mp EXCEPT !.pc = "idle", !.image = Null, !.count = @ + 1]
    /\ \E ok \in BOOLEAN :
          home' = IF variant = "pageA" /\ ~ok
                  THEN HomeMintDone([home EXCEPT !.uploadedImage = Null, !.previewUrl = Null])
                  ELSE HomeMintDone(home)
    /\ UNCHANGED <<variant, homeChain, dp, net, nav, deploys, gpage>>

\* a card of the landing's gallery section: handleTransfer(tokenId, to).
\* The section is rendered outside the connection and network conditions
HomeTransfer ==
    /\ OffersHomeTransfer
    /\ net["transfer"] = "none"
    /\ net' = [net EXCEPT !["transfer"] = "sent"]
    /\ UNCHANGED <<variant, home, homeChain, dp, mp, uploadLog, nav, deploys, gpage>>

\* the Deploy New Collection button
ResetCollection ==
    /\ ShowsMintControls
    /\ home' = [home EXCEPT !.contractAddress = "",
                            !.nftContract = Null,
                            !.uploadedImage = Null,
                            !.previewUrl = Null,
                            !.status = ""]
    /\ UNCHANGED <<variant, homeChain, dp, mp, net, uploadLog, nav, deploys, gpage>>

disconnectWallet(h) ==
    [h EXCEPT !.isConnected = FALSE,
              !.userAddress = "",
              !.isCorrectNetwork = FALSE,
              !.contractAddress = "",
              !.nftContract = Null,
              !.ownedNFTs = 0,
              !.isAccountMenuOpen = FALSE]

\* the Disconnect entry of the account menu (the menu's opening and closing
\* is left out: the entry is reachable whenever a wallet is connected)
Disconnect ==
    /\ Mounted
    /\ home.isConnected
    /\ home' = disconnectWallet(home)
    /\ UNCHANGED <<variant, homeChain, dp, mp, net, uploadLog, nav, deploys, gpage>>

\* router.push has loaded the collection page: Home is unmounted, the
\* gallery screen mounts and runs initializeContract.  The model lets a
\* running landing handler finish first
Navigate ==
    /\ nav = "navigating"
    /\ dp.pc = "idle"
    /\ mp.pc = "idle"
    /\ nav' = "gallery"
    /\ gpage' = [Unmounted EXCEPT !.pc = "init"]
    /\ UNCHANGED <<variant, home, homeChain, dp, mp, net, uploadLog, deploys>>

\* the gallery screen's initializeContract: owner() is compared with the
\* connected account, or a read throws and isOwner stays false
GalleryInitialize ==
    /\ gpage.pc = "init"
    /\ \E readOk \in BOOLEAN :
          gpage' = [gpage EXCEPT !.pc = "ready", !.isOwner = readOk]
    /\ UNCHANGED <<variant, home, homeChain, dp, mp, net, uploadLog, nav, deploys>>

\* the gallery screen's Mint NFT button: shown to the owner, disabled while
\* isMinting
GalleryMintClick ==
    /\ OffersGalleryMint
    /\ net["galleryMint"] = "none"
    /\ gpage' = [gpage EXCEPT !.isMinting = TRUE, !.mint = "send"]
    /\ UNCHANGED <<variant, home, homeChain, dp, mp, net, uploadLog, nav, deploys>>

GalleryMintSend ==
    /\ gpage.mint = "send"
    /\ \E accepted \in BOOLEAN :
          IF accepted
          THEN /\ gpage' = [gpage EXCEPT !.mint = "waitMint"]
               /\ net' = [net EXCEPT !["galleryMint"] = "sent"]
          ELSE /\ gpage' = [gpage EXCEPT !.mint = "idle", !.isMinting = FALSE]
               /\ UNCHANGED net
    /\ UNCHANGED <<variant, home, homeChain, dp, mp, uploadLog, nav, deploys>>

GalleryMintReceipt ==
    /\ gpage.mint = "waitMint"
    /\ net["galleryMint"] \in {"confirmed", "failed"}
    /\ gpage' = [gpage EXCEPT !.mint = "idle", !.isMinting = FALSE]
    /\ UNCHANGED <<variant, home, homeChain, dp, mp, net, uploadLog, nav, deploys>>

\* what the landing screen leaves alone
LandingFrame == UNCHANGED <<symVars, chainVars, galleryVars, uploadVars, switchVars, scriptVars, sessionVars, statusVars, gasVars, cardVars>>

LandingNext ==
    \/ connectWallet /\ LandingFrame
    \/ \E c \in {NEXUS_CHAIN_ID_HEX, OtherChainHex} : WalletChainChanged(c) /\ LandingFrame
    \/ StageImage /\ LandingFrame
    \/ DeployClick /\ LandingFrame
    \/ \E resp \in ProbeResponses : DeployProbe(resp) /\ LandingFrame
    \/ DeployPrepare /\ LandingFrame
    \/ DeploySend /\ LandingFrame
    \/ \E op \in WriteOps : ChainConfirms(op) /\ LandingFrame
    \/ DeployReceipt /\ LandingFrame
    \/ DeploySetBaseURI /\ LandingFrame
    \/ DeployUpload /\ LandingFrame
    \/ DeployRecord /\ LandingFrame
    \/ HomeMintClick /\ LandingFrame
    \/ HomeMintSend /\ LandingFrame
    \/ HomeMintReceipt /\ LandingFrame
    \/ HomeMintUpload /\ LandingFrame
    \/ HomeTransfer /\ LandingFrame
    \/ ResetCollection /\ LandingFrame
    \/ Disconnect /\ LandingFrame
    \/ Navigate /\ LandingFrame
    \/ GalleryInitialize /\ LandingFrame
    \/ GalleryMintClick /\ LandingFrame
    \/ GalleryMintSend /\ LandingFrame
    \/ GalleryMintReceipt /\ LandingFrame

LandingIdle ==
    /\ variant = "pageB"
    /\ home = InitialHome("pageB")
    /\ homeChain = NEXUS_CHAIN_ID_HEX
    /\ dp = IdleDeploy
    /\ mp = IdleHomeMint
    /\ net = NoWrites
    /\ uploadLog = <<>>
    /\ nav = "landing"
    /\ deploys = 0
    /\ gpage = Unmounted

(***************************************************************************)
(* The deployment script: contracts/scripts/deploy.ts                      *)
(***************************************************************************)

\* process.env.NEXT_PUBLIC_API_URL: unset, or a string
EnvValues ==
    {[set |-> FALSE, value |-> <<>>]} \cup
    {[set |-> TRUE, value |-> v] :
        v \in {<<>>, ApiBase, ApiBase \o <<"/">>, ApiBase \o <<"/", "/">>,
               <<"h">>, <<"h", "/">>, <<"/">>}}

\* apiUrl.replace(/\/$/, ''): one trailing slash is removed
StripOneTrailingSlash(s) ==
    IF Len(s) > 0 /\ s[Len(s)] = "/" THEN SubSeq(s, 1, Len(s) - 1) ELSE s

ScriptStart(env) ==
    [pc |-> "getSigners", env |-> env, baseUri |-> <<>>, failedAt |-> "none",
     exitCode |-> 0, exited |-> FALSE, exitStatus |-> 0,
     nft |-> NewCollection(ZeroAddress), printed |-> <<>>]

ScriptInit == \E env \in EnvValues : script = ScriptStart(env)

\* the catch of main: the error is logged, process.exitCode = 1, and main
\* returns normally
ScriptCaught(step) ==
    [script EXCEPT !.pc = "resolved", !.failedAt = step, !.exitCode = 1]

\* a step of main that either succeeds or throws
ScriptStep(step, next) ==
    /\ script.pc = step
    /\ \E ok \in BOOLEAN :
          script' = IF ok THEN [script EXCEPT !.pc = next] ELSE ScriptCaught(step)

ScriptGetSigners == ScriptStep("getSigners", "checkEnv")

\* if (!apiUrl) throw; otherwise the base URI is derived
ScriptCheckEnv ==
    /\ script.pc = "checkEnv"
    /\ script' = IF ~script.env.set \/ script.env.value = <<>>
                 THEN ScriptCaught("checkEnv")
                 ELSE [script EXCEPT !.pc = "getContractFactory",
                                     !.baseUri = StripOneTrailingSlash(script.env.value)
                                                 \o <<"/">> \o PathApiMetadata]

ScriptGetFactory == ScriptStep("getContractFactory", "deploy")

ScriptDeploy == ScriptStep("deploy", "waitForDeployment")

\* the signer of the script
Deployer == AddrA

\* the account the constructor's third argument stands for.  The script
\* passes baseUri there; which address (if any) the library makes of that
\* string is not decided by this repository
ThirdArgumentOwners == {Deployer, AddrB}

\* waitForDeployment: the constructor has run, or the deployment failed
ScriptWaitForDeployment ==
    /\ script.pc = "waitForDeployment"
    /\ \/ script' = ScriptCaught("waitForDeployment")
       \/ \E initialOwner \in ThirdArgumentOwners :
             script' = [script EXCEPT !.pc = "logDetails",
                                      !.nft = NewCollection(initialOwner)]

ScriptLogDetails == ScriptStep("logDetails", "mint")

ScriptMint == ScriptStep("mint", "mintWait")

\* mintTx.wait(): the mint is executed by the contract; on success the
\* script prints `${baseUri}1`
ScriptMintWait ==
    /\ script.pc = "mintWait"
    /\ LET r == mint(script.nft, Deployer)
       IN  \/ script' = ScriptCaught("mintWait")
           \/ /\ r.status = "ok"
              /\ script' = [script EXCEPT !.pc = "resolved", !.nft = r.chain,
                                          !.printed = script.baseUri \o <<"1">>]

\* main().then(() => process.exit(0)): main has returned, by its last
\* statement or by its catch
ScriptExit ==
    /\ script.pc = "resolved"
    /\ script' = [script EXCEPT !.pc = "exited", !.exited = TRUE, !.exitStatus = 0]

ScriptFrame ==
    UNCHANGED <<symVars, chainVars, galleryVars, uploadVars, switchVars, landingVars, sessionVars, statusVars, gasVars, cardVars>>

ScriptNext ==
    \/ ScriptGetSigners /\ ScriptFrame
    \/ ScriptCheckEnv /\ ScriptFrame
    \/ ScriptGetFactory /\ ScriptFrame
    \/ ScriptDeploy /\ ScriptFrame
    \/ ScriptWaitForDeployment /\ ScriptFrame
    \/ ScriptLogDetails /\ ScriptFrame
    \/ ScriptMint /\ ScriptFrame
    \/ ScriptMintWait /\ ScriptFrame
    \/ ScriptExit /\ ScriptFrame

ScriptIdle == script = ScriptStart([set |-> FALSE, value |-> <<>>])

(***************************************************************************)
(* Home's wallet subscriptions: the mount effect, checkNetwork,            *)
(* checkWalletConnection, and the provider's event emitter                 *)
(***************************************************************************)
MaxGen == 3

\* what provider.listAccounts() can return
AccountLists == {<<>>, <<AddrA>>, <<AddrB>>, <<AddrB, AddrA>>}

NoListeners == [chainChanged |-> <<>>, accountsChanged |-> <<>>]

\* a function value: which callback it is and the render that created it
Handler(fn, id) == [fn |-> fn, id |-> id]

NoEffect == [active |-> FALSE, checkNetwork |-> 0, checkWalletConnection |-> 0]

NotMounted ==
    [mounted |-> FALSE, gen |-> 0, checkNetwork |-> 0, checkWalletConnection |-> 0,
     effect |-> NoEffect,
     isConnected |-> FALSE, userAddress |-> "", isCorrectNetwork |-> FALSE]

NothingRan == [event |-> "none", handlers |-> <<>>]

\* EventEmitter.on: appended after the listeners already there
on(listeners, event, h) == [listeners EXCEPT ![event] = Append(@, h)]

\* a removeListener that removes nothing
removeListener_keeps(listeners, event, h) == listeners

\* EventEmitter.removeListener: removes the instance of h added last, if any
removeListener(listeners, event, h) ==
    LET list == listeners[event]
        at == {i \in 1..Len(list) : list[i] = h}
    IN  IF at = {} THEN listeners
        ELSE LET k == CHOOSE i \in at : \A j \in at : j <= i
             IN  [listeners EXCEPT ![event] =
                     SubSeq(list, 1, k - 1) \o SubSeq(list, k + 1, Len(list))]

\* useCallback(fn, deps): the stored function while the deps are the same
useCallback(storedFn, depsSame, freshFn) == IF depsSame THEN storedFn ELSE freshFn

\* checkNetwork: no provider, no change; else isCorrectNetwork follows eth_chainId
checkNetwork(s, eth) ==
    IF ~eth.present THEN s
    ELSE [s EXCEPT !.isCorrectNetwork = (eth.chainId = NEXUS_CHAIN_ID_HEX)]

\* checkWalletConnection: adopts accounts[0] when the list is not empty,
\* then checkNetwork; an empty list changes nothing
checkWalletConnection(s, eth) ==
    IF ~eth.present THEN s
    ELSE IF Len(eth.accounts) > 0
         THEN checkNetwork([s EXCEPT !.isConnected = TRUE,
                                     !.userAddress = eth.accounts[1]], eth)
         ELSE s

\* the effect body after its first line: the two subscriptions
Subscribe(eth, cn, cw) ==
    IF ~eth.present THEN eth
    ELSE [eth EXCEPT !.listeners =
             on(on(@, "chainChanged", Handler("checkNetwork", cn)),
                "accountsChanged", Handler("checkWalletConnection", cw))]

\* the effect's cleanup, with the functions its closure captured
Cleanup(eth, effect) ==
    IF ~eth.present \/ ~effect.active THEN eth
    ELSE [eth EXCEPT !.listeners =
             removeListener(
                 removeListener(@, "chainChanged",
                                Handler("checkNetwork", effect.checkNetwork)),
                 "accountsChanged",
                 Handler("checkWalletConnection", effect.checkWalletConnection))]

\* one listener called by the emitter; a function of an unmounted Home sets
\* state of a component that is gone
Run(h, s, eth) ==
    IF ~s.mounted THEN s
    ELSE IF h.fn = "checkNetwork" THEN checkNetwork(s, eth)
         ELSE checkWalletConnection(s, eth)

RECURSIVE RunAll(_, _, _)
RunAll(list, s, eth) ==
    IF list = <<>> THEN s ELSE RunAll(Tail(list), Run(Head(list), s, eth), eth)

SessionInit ==
    /\ ethereum \in [present : BOOLEAN, accounts : AccountLists,
                     chainId : {NEXUS_CHAIN_ID_HEX, OtherChainHex},
                     listeners : {NoListeners}]
    /\ sess = NotMounted
    /\ ran = NothingRan

\* Home mounts: fresh state, fresh callbacks, and the effect runs:
\* checkWalletConnection(), then the subscriptions
Mount ==
    /\ ~sess.mounted
    /\ sess.gen < MaxGen
    /\ LET g == sess.gen + 1
           fresh == [NotMounted EXCEPT !.mounted = TRUE, !.gen = g,
                                       !.checkNetwork = g, !.checkWalletConnection = g,
                                       !.effect = [active |-> TRUE, checkNetwork |-> g,
                                                   checkWalletConnection |-> g]]
       IN  /\ sess' = checkWalletConnection(fresh, ethereum)
           /\ ethereum' = Subscribe(ethereum, g, g)
    /\ UNCHANGED ran

\* Home renders again: checkNetwork has deps [], checkWalletConnection has
\* deps [checkNetwork], the effect has deps [checkNetwork, checkWalletConnection]
\* and runs its cleanup and its body again only when one of them changed
Rerender ==
    /\ sess.mounted
    /\ sess.gen < MaxGen
    /\ LET g == sess.gen + 1
           cn == useCallback(sess.checkNetwork, TRUE, g)
           cw == useCallback(sess.checkWalletConnection, cn = sess.checkNetwork, g)
           same == cn = sess.effect.checkNetwork /\ cw = sess.effect.checkWalletConnection
           next == [sess EXCEPT !.gen = g, !.checkNetwork = cn, !.checkWalletConnection = cw]
       IN  IF same
           THEN sess' = next /\ UNCHANGED ethereum
           ELSE /\ sess' = checkWalletConnection(
                              [next EXCEPT !.effect = [active |-> TRUE, checkNetwork |-> cn,
                                                       checkWalletConnection |-> cw]],
                              ethereum)
                /\ ethereum' = Subscribe(Cleanup(ethereum, sess.effect), cn, cw)
    /\ UNCHANGED ran

\* Home unmounts: the effect's cleanup runs
Unmount ==
    /\ sess.mounted
    /\ ethereum' = Cleanup(ethereum, sess.effect)
    /\ sess' = [NotMounted EXCEPT !.gen = sess.gen]
    /\ UNCHANGED ran

\* the wallet moves to chain c and emits chainChanged
EmitChainChanged(c) ==
    /\ ethereum.present
    /\ c # ethereum.chainId
    /\ ethereum' = [ethereum EXCEPT !.chainId = c]
    /\ sess' = RunAll(ethereum.listeners["chainChanged"], sess, ethereum')
    /\ ran' = [event |-> "chainChanged", handlers |-> ethereum.listeners["chainChanged"]]

\* the accounts authorized for the site change (another account selected,
\* the site disconnected in the wallet) and the wallet emits accountsChanged
EmitAccountsChanged(accounts) ==
    /\ ethereum.present
    /\ accounts # ethereum.accounts
    /\ ethereum' = [ethereum EXCEPT !.accounts = accounts]
    /\ sess' = RunAll(ethereum.listeners["accountsChanged"], sess, ethereum')
    /\ ran' = [event |-> "accountsChanged", handlers |-> ethereum.listeners["accountsChanged"]]

\* connectWallet: eth_requestAccounts (the user authorizes an account when
\* none is), the signer's address, checkNetwork
SessConnect(a) ==
    /\ sess.mounted
    /\ ethereum.present
    /\ ~sess.isConnected
    /\ ethereum' = IF ethereum.accounts = <<>>
                   THEN [ethereum EXCEPT !.accounts = <<a>>]
                   ELSE ethereum
    /\ sess' = checkNetwork([sess EXCEPT !.userAddress = ethereum'.accounts[1],
                                         !.isConnected = TRUE], ethereum')
    /\ UNCHANGED ran

\* disconnectWallet, as far as the session goes
SessDisconnect ==
    /\ sess.mounted
    /\ sess.isConnected
    /\ sess' = [sess EXCEPT !.isConnected = FALSE, !.userAddress = "",
                            !.isCorrectNetwork = FALSE]
    /\ UNCHANGED <<ethereum, ran>>

SessionFrame ==
    UNCHANGED <<symVars, chainVars, galleryVars, uploadVars, switchVars, landingVars, scriptVars, statusVars, gasVars, cardVars>>

SessionNext ==
    \/ Mount /\ SessionFrame
    \/ Rerender /\ SessionFrame
    \/ Unmount /\ SessionFrame
    \/ \E c \in {NEXUS_CHAIN_ID_HEX, OtherChainHex} : EmitChainChanged(c) /\ SessionFrame
    \/ \E accounts \in AccountLists : EmitAccountsChanged(accounts) /\ SessionFrame
    \/ \E a \in {AddrA, AddrB} : SessConnect(a) /\ SessionFrame
    \/ SessDisconnect /\ SessionFrame

SessionIdle ==
    /\ ethereum = [present |-> FALSE, accounts |-> <<>>, chainId |-> NEXUS_CHAIN_ID_HEX,
                   listeners |-> NoListeners]
    /\ sess = NotMounted
    /\ ran = NothingRan

(***************************************************************************)
(* The status area: the texts mintNFT and deployNFT set, and               *)
(* formatStatusDisplay                                                     *)
(***************************************************************************)
MaxStatusId == 2

\* the gallery screen and the three sources of Home
Screens == {"gallery", "pageA", "pageB", "part001"}

NEXUS_EXPLORER_URL == <<"h", "t", "t", "p", "s", ":", "/", "/", "e", "x", "p", "l", "o", "r", "e", "r", ".", "n", "e", "x", "u", "s", ".", "x", "y", "z">>

TxHashes == {<<"0", "x", "a", "1">>, <<"0", "x", "B", "2">>}

\* error.message of what the awaited calls throw; the handlers themselves
\* throw 'Minting failed' and 'Deployment failed'
ErrorMessages == {<<>>, <<"u", "s", "e", "r", " ", "r", "e", "j", "e", "c", "t", "e", "d", " ", "a", "c", "t", "i", "o", "n">>, <<"M", "i", "n", "t", "i", "n", "g", " ", "f", "a", "i", "l", "e", "d">>, <<"D", "e", "p", "l", "o", "y", "m", "e", "n", "t", " ", "f", "a", "i", "l", "e", "d">>}

AddressText(a) ==
    CASE a = AddrA -> <<"0", "x", "A", "A">>
      [] a = AddrB -> <<"0", "x", "B", "B">>
      [] a = ZeroAddress -> <<"0", "x", "0", "0">>
      [] OTHER -> <<"0", "x", "C", "0">>

IsDigitChar(c) == c \in {"0", "1", "2", "3", "4", "5", "6", "7", "8", "9"}

Undefined == <<"u", "n", "d", "e", "f", "i", "n", "e", "d">>

\* s.match(/<label>(\d+)/)?.[1]: the digits after the leftmost occurrence of
\* the label that is followed by a digit
matchDigitsAfter(s, label) ==
    LET n == Len(label)
        at == {i \in 1..(Len(s) - n) :
                  SubSeq(s, i, i + n - 1) = label /\ IsDigitChar(s[i + n])}
    IN  IF at = {} THEN Undefined
        ELSE LET i == CHOOSE k \in at : \A j \in at : k <= j
                 last == CHOOSE e \in (i + n)..Len(s) :
                            /\ \A k \in (i + n)..e : IsDigitChar(s[k])
                            /\ e = Len(s) \/ ~IsDigitChar(s[e + 1])
             IN  SubSeq(s, i + n, last)

\* the Transfer event of a mint as ethers decodes it: args[0..2]
TransferArgs(to, tokenId) ==
    [from |-> AddressText(ZeroAddress), to |-> AddressText(to), tokenId |-> ToDecimal(tokenId)]

NoTransfer == [from |-> <<>>, to |-> <<>>, tokenId |-> <<>>]

\* the token id mintNFT puts in its status: the gallery screen reads
\* mintEvent.args[1], pageB and part_001 parsedLog.args[2], pageA args.tokenId
mintedTokenId(screen, args) ==
    IF screen = "gallery" THEN args.to ELSE args.tokenId

InitiatingStatus == <<"I", "n", "i", "t", "i", "a", "t", "i", "n", "g", " ", "N", "F", "T", " ", "m", "i", "n", "t", ".", ".", ".">>

MintingStatus(hash) ==
    <<"M", "i", "n", "t", "i", "n", "g", " ", "N", "F", "T", ".", ".", ".", " ", "T", "r", "a", "n", "s", "a", "c", "t", "i", "o", "n", ":", " ">> \o hash \o <<"\n", "M", "o", "n", "i", "t", "o", "r", "i", "n", "g", " ", "t", "r", "a", "n", "s", "a", "c", "t", "i", "o", "n", " ", "s", "t", "a", "t", "u", "s", ".", ".", ".">>

MintedStatus(hash, tokenId) ==
    <<"N", "F", "T", " ", "m", "i", "n", "t", "e", "d", " ", "s", "u", "c", "c", "e", "s", "s", "f", "u", "l", "l", "y", "!", "\n", " ", " ", " ", " ", " ", " ", " ", " ", " ", " ", "T", "r", "a", "n", "s", "a", "c", "t", "i", "o", "n", ":", " ">> \o hash \o <<"\n", " ", " ", " ", " ", " ", " ", " ", " ", " ", " ", "T", "o", "k", "e", "n", " ", "I", "D", ":", " ">> \o tokenId \o <<"\n", " ", " ", " ", " ", " ", " ", " ", " ", " ", " ", "V", "i", "e", "w", " ", "o", "n", " ", "E", "x", "p", "l", "o", "r", "e", "r", ":", " ">> \o NEXUS_EXPLORER_URL \o <<"/", "t", "x", "/">> \o hash

UnknownError == <<"U", "n", "k", "n", "o", "w", "n", " ", "e", "r", "r", "o", "r">>

MintFailedStatus(message) ==
    <<"M", "i", "n", "t", "i", "n", "g", " ", "f", "a", "i", "l", "e", "d", ":", " ">> \o (IF message = <<>> THEN UnknownError ELSE message)

FirstDeployStatus(screen) ==
    IF screen = "pageA" THEN <<"C", "o", "n", "n", "e", "c", "t", "i", "n", "g", " ", "t", "o", " ", "M", "e", "t", "a", "M", "a", "s", "k", ".", ".", ".">> ELSE <<"V", "a", "l", "i", "d", "a", "t", "i", "n", "g", " ", "c", "o", "n", "f", "i", "g", "u", "r", "a", "t", "i", "o", "n", ".", ".", ".">>

DeployingStatus == <<"D", "e", "p", "l", "o", "y", "i", "n", "g", " ", "N", "F", "T", " ", "c", "o", "n", "t", "r", "a", "c", "t", ".", ".", ".">>

DeploySentStatus(hash) ==
    <<"D", "e", "p", "l", "o", "y", "i", "n", "g", " ", "N", "F", "T", " ", "c", "o", "n", "t", "r", "a", "c", "t", ".", ".", ".", " ", "T", "r", "a", "n", "s", "a", "c", "t", "i", "o", "n", ":", " ">> \o hash \o <<"\n", "M", "o", "n", "i", "t", "o", "r", "i", "n", "g", " ", "t", "r", "a", "n", "s", "a", "c", "t", "i", "o", "n", " ", "s", "t", "a", "t", "u", "s", ".", ".", ".">>

DeployedStatus(screen, hash, address) ==
    IF screen = "pageA"
    THEN <<"N", "F", "T", " ", "c", "o", "n", "t", "r", "a", "c", "t", " ", "d", "e", "p", "l", "o", "y", "e", "d", " ", "s", "u", "c", "c", "e", "s", "s", "f", "u", "l", "l", "y", "!", "\n", " ", " ", " ", " ", " ", " ", " ", " ", " ", " ", " ", " ", "T", "r", "a", "n", "s", "a", "c", "t", "i", "o", "n", ":", " ">> \o hash \o <<"\n", " ", " ", " ", " ", " ", " ", " ", " ", " ", " ", " ", " ", "C", "o", "n", "t", "r", "a", "c", "t", " ", "A", "d", "d", "r", "e", "s", "s", ":", " ">> \o address \o <<"\n", " ", " ", " ", " ", " ", " ", " ", " ", " ", " ", " ", " ", "V", "i", "e", "w", " ", "o", "n", " ", "E", "x", "p", "l", "o", "r", "e", "r", ":", " ">> \o NEXUS_EXPLORER_URL \o <<"/", "t", "x", "/">> \o hash
    ELSE <<"N", "F", "T", " ", "C", "o", "l", "l", "e", "c", "t", "i", "o", "n", " ", "d", "e", "p", "l", "o", "y", "e", "d", " ", "s", "u", "c", "c", "e", "s", "s", "f", "u", "l", "l", "y", "!", "\n", " ", " ", " ", " ", " ", " ", " ", " ", " ", " ", "C", "o", "n", "t", "r", "a", "c", "t", ":", " ">> \o address \o <<"\n", " ", " ", " ", " ", " ", " ", " ", " ", " ", " ", "V", "i", "e", "w", " ", "o", "n", " ", "E", "x", "p", "l", "o", "r", "e", "r", ":", " ">> \o NEXUS_EXPLORER_URL \o <<"/", "a", "d", "d", "r", "e", "s", "s", "/">> \o address

DeployFailedStatus(screen, message) ==
    IF screen = "pageA"
    THEN <<"E", "r", "r", "o", "r", ":", " ">> \o (IF message = <<>> THEN <<"U", "n", "k", "n", "o", "w", "n", " ", "e", "r", "r", "o", "r", " ", "o", "c", "c", "u", "r", "r", "e", "d">> ELSE message)
    ELSE <<"D", "e", "p", "l", "o", "y", "m", "e", "n", "t", " ", "f", "a", "i", "l", "e", "d", ":", " ">> \o message

View(kind, tokenId) == [view |-> kind, tokenId |-> tokenId]

\* formatStatusDisplay: the success view, the spinner, or the plain text;
\* the gallery screen has no deployment branch and renders nothing for ''
formatStatusDisplay(screen, text) ==
    IF screen # "gallery" /\ includes(text, <<"N", "F", "T", " ", "c", "o", "n", "t", "r", "a", "c", "t", " ", "d", "e", "p", "l", "o", "y", "e", "d", " ", "s", "u", "c", "c", "e", "s", "s", "f", "u", "l", "l", "y">>)
    THEN View("deploySuccess", <<>>)
    ELSE IF includes(text, <<"N", "F", "T", " ", "m", "i", "n", "t", "e", "d", " ", "s", "u", "c", "c", "e", "s", "s", "f", "u", "l", "l", "y">>)
    THEN View("mintSuccess", matchDigitsAfter(text, <<"T", "o", "k", "e", "n", " ", "I", "D", ":", " ">>))
    ELSE IF (screen # "gallery" /\ includes(text, <<"D", "e", "p", "l", "o", "y", "i", "n", "g">>)) \/ includes(text, <<"M", "i", "n", "t", "i", "n", "g">>)
    THEN View("spinner", <<>>)
    ELSE IF screen = "gallery" /\ text = <<>> THEN View("nothing", <<>>)
    ELSE View("text", <<>>)

IdleStatus(screen) ==
    [screen |-> screen, op |-> "none", phase |-> "idle", hash |-> <<>>,
     args |-> NoTransfer, text |-> <<>>]

StatusInit == stat \in {IdleStatus(screen) : screen \in Screens}

Settled == stat.phase \in {"idle", "success", "failed"}

\* mintNFT: entry
StatMintClick ==
    /\ Settled
    /\ stat' = [stat EXCEPT !.op = "mint", !.phase = "initiating", !.hash = <<>>,
                            !.args = NoTransfer, !.text = InitiatingStatus]

\* mintNFT: mint() returned the transaction
StatMintSent(hash) ==
    /\ stat.op = "mint" /\ stat.phase = "initiating"
    /\ stat' = [stat EXCEPT !.phase = "sent", !.hash = hash, !.text = MintingStatus(hash)]

\* mintNFT: the receipt has status 1 and carries the mint's Transfer event
StatMintConfirmed(to, tokenId) ==
    /\ stat.op = "mint" /\ stat.phase = "sent"
    /\ LET args == TransferArgs(to, tokenId)
       IN  stat' = [stat EXCEPT !.phase = "success", !.args = args,
                                !.text = MintedStatus(stat.hash, mintedTokenId(stat.screen, args))]

\* mintNFT: catch
StatMintFailed(message) ==
    /\ stat.op = "mint" /\ stat.phase \in {"initiating", "sent"}
    /\ stat' = [stat EXCEPT !.phase = "failed", !.text = MintFailedStatus(message)]

\* deployNFT: entry (Home only)
StatDeployClick ==
    /\ stat.screen # "gallery"
    /\ Settled
    /\ stat' = [stat EXCEPT !.op = "deploy", !.phase = "initiating", !.hash = <<>>,
                            !.args = NoTransfer, !.text = FirstDeployStatus(stat.screen)]

\* deployNFT: about to call factory.deploy
StatDeploySending ==
    /\ stat.op = "deploy" /\ stat.phase = "initiating"
    /\ stat' = [stat EXCEPT !.phase = "sending", !.text = DeployingStatus]

\* deployNFT: the deployment transaction is known
StatDeploySent(hash) ==
    /\ stat.op = "deploy" /\ stat.phase = "sending"
    /\ stat' = [stat EXCEPT !.phase = "sent", !.hash = hash, !.text = DeploySentStatus(hash)]

\* deployNFT: the receipt has status 1
StatDeployConfirmed ==
    /\ stat.op = "deploy" /\ stat.phase = "sent"
    /\ stat' = [stat EXCEPT !.phase = "success",
                            !.text = DeployedStatus(stat.screen, stat.hash, AddressText(Deployed))]

\* deployNFT: catch
StatDeployFailed(message) ==
    /\ stat.op = "deploy" /\ stat.phase \in {"initiating", "sending", "sent"}
    /\ stat' = [stat EXCEPT !.phase = "failed",
                            !.text = DeployFailedStatus(stat.screen, message)]

StatusFrame ==
    UNCHANGED <<symVars, chainVars, galleryVars, uploadVars, switchVars, landingVars,
                scriptVars, sessionVars, gasVars, cardVars>>

StatusNext ==
    \/ StatMintClick /\ StatusFrame
    \/ \E hash \in TxHashes : StatMintSent(hash) /\ StatusFrame
    \/ \E to \in {AddrA, AddrB}, tokenId \in 1..MaxStatusId :
          StatMintConfirmed(to, tokenId) /\ StatusFrame
    \/ \E message \in ErrorMessages : StatMintFailed(message) /\ StatusFrame
    \/ StatDeployClick /\ StatusFrame
    \/ StatDeploySending /\ StatusFrame
    \/ \E hash \in TxHashes : StatDeploySent(hash) /\ StatusFrame
    \/ StatDeployConfirmed /\ StatusFrame
    \/ \E message \in ErrorMessages : StatDeployFailed(message) /\ StatusFrame

StatusIdle == stat = IdleStatus("gallery")

(***************************************************************************)
(* deployNFT: the gas limit of the deployment transaction                  *)
(***************************************************************************)
MaxGasEstimate == 40
FixedGasLimit == 3000000

\* eth_estimateGas for the deployment: a quantity, or the request fails
GasEstimates ==
    {[ok |-> TRUE, gasUsed |-> g] : g \in 1..MaxGasEstimate} \cup {[ok |-> FALSE, gasUsed |-> 0]}

NoOverride == [set |-> FALSE, gasLimit |-> 0]

GasStart(v, estimate) ==
    [variant |-> v, estimate |-> estimate, pc |-> "prepare", override |-> NoOverride,
     sent |-> FALSE, gasLimit |-> 0, aborted |-> FALSE]

GasInit == gas \in {GasStart(v, estimate) : v \in Variants, estimate \in GasEstimates}

\* the first source estimates itself, adds 20 % with BigInt arithmetic and
\* falls back to the fixed limit; the other two sources pass no override
gasOverride(v, estimate) ==
    IF v = "pageA"
    THEN [set |-> TRUE,
          gasLimit |-> IF estimate.ok THEN (estimate.gasUsed * 120) \div 100 ELSE FixedGasLimit]
    ELSE NoOverride

\* deployNFT up to factory.deploy
GasPrepare ==
    /\ gas.pc = "prepare"
    /\ gas' = [gas EXCEPT !.pc = "deploy", !.override = gasOverride(gas.variant, gas.estimate)]

\* factory.deploy(...): the signer sends the override's gasLimit; without one
\* it asks the node for the estimate and uses it as it is, and the call
\* rejects when the estimate fails
GasDeploy ==
    /\ gas.pc = "deploy"
    /\ gas' = IF gas.override.set
              THEN [gas EXCEPT !.pc = "done", !.sent = TRUE, !.gasLimit = gas.override.gasLimit]
              ELSE IF gas.estimate.ok
              THEN [gas EXCEPT !.pc = "done", !.sent = TRUE, !.gasLimit = gas.estimate.gasUsed]
              ELSE [gas EXCEPT !.pc = "done", !.aborted = TRUE]

GasFrame ==
    UNCHANGED <<symVars, chainVars, galleryVars, uploadVars, switchVars, landingVars,
                scriptVars, sessionVars, statusVars, cardVars>>

GasNext ==
    \/ GasPrepare /\ GasFrame
    \/ GasDeploy /\ GasFrame

GasIdle == gas = GasStart("pageB", [ok |-> FALSE, gasUsed |-> 0])

(***************************************************************************)
(* NFTCard: the transfer form and handleTransfer                           *)
(***************************************************************************)
MaxSubmits == 3

\* what the recipient field can hold
Recipients == {"", AddrB, "not-an-address"}

\* how the supplied callback settles: the transfer went through; it failed
\* and the callback caught the error itself (both screens' handleTransfer);
\* it failed and the callback rejected
TransferOutcomes == {"transferred", "failedCaught", "rejected"}

NewCard ==
    [transferAddress |-> "", isTransferring |-> FALSE, runs |-> <<>>, calls |-> <<>>,
     submits |-> 0]

CardInit == xcard = NewCard

\* handleTransfer after the await with no cleanup path
afterTransfer_noFinally(c, outcome) ==
    IF outcome = "rejected" THEN c
    ELSE [c EXCEPT !.transferAddress = "", !.isTransferring = FALSE]

\* handleTransfer after the await: the field is cleared when the callback
\* resolved, the catch logs, the finally resets the flag
afterTransfer(c, outcome) ==
    LET cleared == IF outcome = "rejected" THEN c ELSE [c EXCEPT !.transferAddress = ""]
    IN  [cleared EXCEPT !.isTransferring = FALSE]

\* the Transfer button, rendered while isTransferring is false
CardOpenForm ==
    /\ ~xcard.isTransferring
    /\ xcard' = [xcard EXCEPT !.isTransferring = TRUE]

\* typing into the recipient field, rendered while isTransferring is true
CardType(to) ==
    /\ xcard.isTransferring
    /\ to # xcard.transferAddress
    /\ xcard' = [xcard EXCEPT !.transferAddress = to]

\* the Send button: handleTransfer up to the await
CardSubmit ==
    /\ xcard.isTransferring
    /\ xcard.submits < MaxSubmits
    /\ xcard' = IF xcard.transferAddress = ""
                THEN [xcard EXCEPT !.submits = @ + 1]
                ELSE [xcard EXCEPT !.submits = @ + 1,
                                   !.isTransferring = TRUE,
                                   !.calls = Append(@, xcard.transferAddress),
                                   !.runs = Append(@, "awaiting")]

\* onTransfer settles for run k: the rest of handleTransfer
CardSettle(k, outcome) ==
    /\ k \in 1..Len(xcard.runs)
    /\ xcard.runs[k] = "awaiting"
    /\ xcard' = [afterTransfer(xcard, outcome) EXCEPT !.runs[k] = outcome]

CardFrame ==
    UNCHANGED <<symVars, chainVars, galleryVars, uploadVars, switchVars, landingVars,
                scriptVars, sessionVars, statusVars, gasVars>>

CardNext ==
    \/ CardOpenForm /\ CardFrame
    \/ \E to \in Recipients : CardType(to) /\ CardFrame
    \/ CardSubmit /\ CardFrame
    \/ \E k \in 1..MaxSubmits, outcome \in TransferOutcomes : CardSettle(k, outcome) /\ CardFrame

CardIdle == xcard = NewCard

(***************************************************************************)
(* generateNFTSymbol                                                       *)
(***************************************************************************)
Returned(v) == [kind |-> "ok", value |-> v]
Thrown == [kind |-> "throw", value |-> <<>>]
NotCalled == [kind |-> "none", value |-> <<>>]

generateNFTSymbol(name) ==
    LET stripped == RemoveChars(name, {c \in CharsOf(name) : ~(IsWordChar(c) \/ IsSpaceChar(c))})
        words == splitWhitespace(stripped)
    IN  IF Len(words) = 0 THEN Returned(<<"N", "F", "T">>)
        ELSE IF Len(words) = 1
        THEN LET word == MapUpper(words[1])
                 consonants == RemoveChars(word, {c \in CharsOf(word) : IsVowel(c)})
             IN  IF Len(word) <= 4 THEN Returned(word)
                 ELSE IF Len(consonants) >= 3
                      THEN Returned(Slice0(consonants, 4))
                      ELSE Returned(Slice0(word, 4))
        \* word[0] of an empty word is undefined: toUpperCase throws
        ELSE IF \E i \in 1..Len(words) : words[i] = <<>>
             THEN Thrown
             ELSE Returned(Slice0([i \in 1..Len(words) |-> toUpperCase(words[i][1])], 4))

SymChars == {"a", "e", "b", "c", "D", " ", "!"}

RECURSIVE SeqsUpTo(_, _)
SeqsUpTo(S, n) ==
    IF n = 0 THEN {<<>>}
    ELSE LET shorter == SeqsUpTo(S, n - 1)
         IN  shorter \cup {Append(s, c) : s \in {t \in shorter : Len(t) = n - 1}, c \in S}

SymInit ==
    /\ symName \in SeqsUpTo(SymChars, MaxNameLen)
    /\ symResult = NotCalled
    /\ ChainInit
    /\ GalleryIdle
    /\ UploadIdle
    /\ SwitchIdle
    /\ LandingIdle
    /\ ScriptIdle
    /\ SessionIdle
    /\ StatusIdle
    /\ GasIdle
    /\ CardIdle

\* the derivation of the symbol from the name typed into the form
GenerateSymbol ==
    /\ symResult = NotCalled
    /\ symResult' = generateNFTSymbol(symName)
    /\ UNCHANGED <<symName, chainVars, galleryVars, uploadVars, switchVars, cardVars, gasVars, statusVars, sessionVars, scriptVars, landingVars>>

SymNext == GenerateSymbol

SpecSymbol == SymInit /\ [][SymNext]_vars

SymIdle == symName = <<>> /\ symResult = NotCalled

ChainSpecInit == ChainInit /\ SymIdle /\ GalleryIdle /\ UploadIdle /\ SwitchIdle /\ LandingIdle /\ ScriptIdle /\ SessionIdle /\ StatusIdle /\ GasIdle /\ CardIdle

ChainSpecNext == ChainNext

GallerySpecInit == GalleryInit /\ ChainIdle /\ SymIdle /\ UploadIdle /\ SwitchIdle /\ LandingIdle /\ ScriptIdle /\ SessionIdle /\ StatusIdle /\ GasIdle /\ CardIdle

GallerySpecNext == GalleryNext

SpecGallery == GallerySpecInit /\ [][GallerySpecNext]_vars

SpecChain == ChainSpecInit /\ [][ChainSpecNext]_vars

\* the collection's lifetime as a sequence of executed calls, freeze included
LifetimeNext ==
    \/ \E c \in Clients : CallMint(c) /\ ChainFrame
    \/ \E c \in Clients, uri \in {UriOne, UriTwo} : CallSetBaseURI(c, uri) /\ ChainFrame
    \/ \E c \in Clients, to \in {AddrA, AddrB, ZeroAddress}, t \in 1..MaxSupply :
          CallTransfer(c, to, t) /\ ChainFrame
    \/ \E c \in Clients : CallFreeze(c) /\ ChainFrame

LifetimeSpecInit == ChainSpecInit

SpecLifetime == LifetimeSpecInit /\ [][LifetimeNext]_vars

UploadSpecInit == UploadInit /\ ChainInit /\ SymIdle /\ GalleryIdle /\ SwitchIdle /\ LandingIdle /\ ScriptIdle /\ SessionIdle /\ StatusIdle /\ GasIdle /\ CardIdle

UploadSpecNext == UploadNext

SpecUploads == UploadSpecInit /\ [][UploadSpecNext]_vars

SwitchSpecInit == SwitchInit /\ ChainInit /\ SymIdle /\ GalleryIdle /\ UploadIdle /\ LandingIdle /\ ScriptIdle /\ SessionIdle /\ StatusIdle /\ GasIdle /\ CardIdle

SwitchSpecNext == SwitchNext

SpecSwitch == SwitchSpecInit /\ [][SwitchSpecNext]_vars

LandingSpecInit == LandingInit /\ ChainInit /\ SymIdle /\ GalleryIdle /\ UploadIdle /\ SwitchIdle /\ ScriptIdle /\ SessionIdle /\ StatusIdle /\ GasIdle /\ CardIdle

LandingSpecNext == LandingNext

SpecLanding == LandingSpecInit /\ [][LandingSpecNext]_vars

ScriptSpecInit ==
    ScriptInit /\ ChainInit /\ SymIdle /\ GalleryIdle /\ UploadIdle /\ SwitchIdle /\ LandingIdle /\ SessionIdle /\ StatusIdle /\ GasIdle /\ CardIdle

ScriptSpecNext == ScriptNext

SpecScript == ScriptSpecInit /\ [][ScriptSpecNext]_vars

SessionSpecInit ==
    SessionInit /\ ChainInit /\ SymIdle /\ GalleryIdle /\ UploadIdle /\ SwitchIdle /\ LandingIdle /\ ScriptIdle /\ StatusIdle /\ GasIdle /\ CardIdle

SessionSpecNext == SessionNext

SpecSession == SessionSpecInit /\ [][SessionSpecNext]_vars

StatusSpecInit ==
    StatusInit /\ ChainInit /\ SymIdle /\ GalleryIdle /\ UploadIdle /\ SwitchIdle /\ LandingIdle /\ ScriptIdle /\ SessionIdle /\ GasIdle /\ CardIdle

StatusSpecNext == StatusNext

SpecStatus == StatusSpecInit /\ [][StatusSpecNext]_vars

GasSpecInit ==
    GasInit /\ ChainInit /\ SymIdle /\ GalleryIdle /\ UploadIdle /\ SwitchIdle /\ LandingIdle /\ ScriptIdle /\ SessionIdle /\ StatusIdle /\ CardIdle

GasSpecNext == GasNext

SpecGas == GasSpecInit /\ [][GasSpecNext]_vars

CardSpecInit ==
    CardInit /\ ChainInit /\ SymIdle /\ GalleryIdle /\ UploadIdle /\ SwitchIdle /\ LandingIdle /\ ScriptIdle /\ SessionIdle /\ StatusIdle /\ GasIdle

CardSpecNext == CardNext

SpecCard == CardSpecInit /\ [][CardSpecNext]_vars

(***************************************************************************)
(* Claims about generateNFTSymbol                                          *)
(***************************************************************************)
\* the words of a name as the written rule counts them: the non-empty
\* pieces left between runs of whitespace
RECURSIVE NonEmptyPieces(_)
NonEmptyPieces(ws) ==
    IF ws = <<>> THEN <<>>
    ELSE IF Head(ws) = <<>> THEN NonEmptyPieces(Tail(ws))
         ELSE <<Head(ws)>> \o NonEmptyPieces(Tail(ws))

RuleSymbol(name) ==
    LET kept == RemoveChars(name, {c \in CharsOf(name) : ~(IsWordChar(c) \/ IsSpaceChar(c))})
        ws == NonEmptyPieces(splitWhitespace(kept))
    IN  IF Len(ws) = 0 THEN <<"N", "F", "T">>
        ELSE IF Len(ws) = 1
        THEN LET w == MapUpper(ws[1])
                 cons == RemoveChars(w, {c \in CharsOf(w) : IsVowel(c)})
             IN  IF Len(w) <= 4 THEN w
                 ELSE IF Len(cons) >= 3 THEN Slice0(cons, 4) ELSE Slice0(w, 4)
        ELSE Slice0([i \in 1..Len(ws) |-> toUpperCase(ws[i][1])], 4)

\* C1: for every collection name the symbol generateNFTSymbol returns is the
\* one the written rule gives: "NFT" when no word remains, the short word
\* itself, the first four consonants (or characters) of a long word, or the
\* initials of several words truncated to four.
C1_SymbolFollowsRule ==
    symResult # NotCalled => symResult = Returned(RuleSymbol(symName))

(***************************************************************************)
(* Claims about the collection contract                                    *)
(***************************************************************************)
\* C2: from a fresh collection, the n successful mints (also when several
\* clients have mints pending at once) get the ids 1..n in execution order,
\* each token belongs to the collection owner when minted, and
\* totalSupply() is n.
C2_MintIdsSequential ==
    /\ totalSupply(chain) = Len(mintLog)
    /\ \A i \in 1..Len(mintLog) :
          /\ mintLog[i].tokenId = i
          /\ mintLog[i].owner = chain.owner

\* C2 happens: a mint that raced another pending mint succeeded and the
\* collection holds at least two tokens
C2_Witness ==
    /\ lastReceipt.op = "mint" /\ lastReceipt.status = "ok" /\ lastReceipt.racing
    /\ Len(mintLog) >= 2

\* C3: a mint() sent by an address that is not the owner fails with
\* Unauthorized and leaves totalSupply, every token's owner and the base URI
\* (hence every tokenURI) as they were.
C3_NonOwnerMintRejected ==
    [][\A c \in Clients :
         (txPending[c].op = "mint" /\ txPending'[c] = NoTx /\ ClientAddr(c) # chain.owner)
         => /\ lastReceipt'.status = "Unauthorized"
            /\ totalSupply(chain') = totalSupply(chain)
            /\ chain'.baseURI = chain.baseURI
            /\ \A t \in 0..(MaxSupply + 1) : ownerOf(chain', t) = ownerOf(chain, t)]_vars

\* C3 happens: a non-owner's mint was executed on a collection with tokens
C3_Witness ==
    /\ lastReceipt.op = "mint" /\ lastReceipt.client = "tab3"
    /\ lastReceipt.status = "Unauthorized"
    /\ totalSupply(chain) > 0

DigitValue(c) == IF \E d \in 0..9 : Digit(d) = c THEN CHOOSE d \in 0..9 : Digit(d) = c ELSE -1

\* the number a canonical decimal numeral denotes, -1 for any other string
RECURSIVE ParseDigits(_, _)
ParseDigits(s, acc) ==
    IF s = <<>> THEN acc
    ELSE IF DigitValue(Head(s)) < 0 THEN -1
         ELSE ParseDigits(Tail(s), acc * 10 + DigitValue(Head(s)))

ParseDecimal(s) ==
    IF s = <<>> \/ (Len(s) > 1 /\ Head(s) = "0") THEN -1 ELSE ParseDigits(s, 0)

MintedIds == {mintLog[i].tokenId : i \in 1..Len(mintLog)}

\* C4: tokenURI(t) of a minted token is the current base URI immediately
\* followed by the decimal numeral of t, whatever base URI is current; for an
\* id never minted tokenURI fails with NotFound.
C4_TokenURIComposition ==
    \A t \in 0..(MaxSupply + 1) :
        LET r == tokenURI(chain, t)
            n == Len(chain.baseURI)
        IN  IF t \in MintedIds
            THEN /\ r.kind = "ok"
                 /\ Len(r.value) > n
                 /\ SubSeq(r.value, 1, n) = chain.baseURI
                 /\ ParseDecimal(SubSeq(r.value, n + 1, Len(r.value))) = t
            ELSE r.kind = "NotFound"

\* C4 happens: the base URI was replaced while tokens already existed
C4_Witness ==
    /\ lastReceipt.op = "setBaseURI" /\ lastReceipt.status = "ok"
    /\ chain.baseURI = UriTwo
    /\ Len(mintLog) >= 2

(***************************************************************************)
(* Claims about the gallery                                                *)
(***************************************************************************)
\* handler p's fetchCollectionNFTs returns in this step
FetchEnds(p) == procs[p].pc \in {"fetchSupply", "fetchLoop"} /\ procs'[p].pc = "idle"

\* the total supply that fetch read (or would have read)
FetchedSupply(p) == IF procs[p].pc = "fetchLoop" THEN procs[p].n ELSE totalSupply(chain)

\* handler p's fetch completes one iteration in this step
FetchIterates(p) == procs[p].pc = "fetchLoop" /\ procs'[p] # procs[p]

\* the local list of handler p's fetch after the step
ListAfter(p) == IF procs'[p].pc = "idle" THEN nfts' ELSE procs'[p].acc

ListsExactly(list, n) ==
    /\ Len(list) = n
    /\ \A k \in 1..n : ParseDecimal(list[k].tokenId) = k

\* C5: a fetch whose total-supply read gave n returns (it has no throwing
\* exit) having stored exactly n entries with the ids 1..n ascending; the
\* entry of a token holds metadata exactly when the tokenURI read, the HTTP
\* status, the application/json content type and the JSON parse all
\* succeeded for it, and the entries already collected for other tokens are
\* left as they were.
C5_GalleryFetchTolerant ==
    [][\A p \in Procs :
         /\ (FetchEnds(p) /\ lastFetchStep'.supplyRead)
              => ListsExactly(nfts', FetchedSupply(p))
         /\ FetchIterates(p)
              => LET before == procs[p].acc
                     after == ListAfter(p)
                 IN  /\ Len(after) = Len(before) + 1
                     /\ SubSeq(after, 1, Len(before)) = before
                     /\ (after[Len(after)].metadata # NullMetadata) <=> lastFetchStep'.all]_vars

\* the behaviour of the two screens' fetches as coded: the landing screen
\* has no content-type test, and a failed total-supply read leaves the list
C5_FetchAsCoded ==
    [][\A p \in Procs :
         /\ (FetchEnds(p) /\ lastFetchStep'.supplyRead)
              => ListsExactly(nfts', FetchedSupply(p))
         /\ (FetchEnds(p) /\ ~lastFetchStep'.supplyRead) => nfts' = nfts
         /\ FetchIterates(p)
              => LET before == procs[p].acc
                     after == ListAfter(p)
                 IN  /\ Len(after) = Len(before) + 1
                     /\ SubSeq(after, 1, Len(before)) = before
                     /\ (after[Len(after)].metadata # NullMetadata)
                          <=> IF gScreen = "gallery" THEN lastFetchStep'.all
                                                     ELSE lastFetchStep'.parsed]_vars

\* C10: on the gallery screen, with no mint, transfer or refresh still
\* running and the last refresh having read the collection, every card
\* whose metadata loaded and whose ownership query has completed shows the
\* transfer control exactly when the connected address is (ignoring case)
\* the token's owner on chain, and the "Owned by" link otherwise.
C10_CardShowsCurrentOwner ==
    (/\ gScreen = "gallery"
     /\ \A p \in Procs : procs[p].pc = "idle"
     /\ lastFetchStep.supplyRead)
    => \A t \in TokenIds :
          (cards[t].pc = "ready" /\ EntryOf(nfts, t).metadata # NullMetadata)
          => LET mine == toLowerCase(ownerOf(chain, t).value) = toLowerCase(gUser)
             IN  /\ ShowsTransfer(t) <=> mine
                 /\ ShowsOwnedBy(t) <=> ~mine

(***************************************************************************)
(* Claims about the upload and metadata endpoints                          *)
(***************************************************************************)
\* the stored files that uploads tagged with tokenId wrote
StoredFor(tokenId) == {f \in stored : f.tokenId = tokenId}

\* the value of the attribute of a metadata document named trait
TraitValue(doc, trait) ==
    LET i == CHOOSE i \in 1..Len(doc.attributes) : doc.attributes[i].trait_type = trait
    IN  doc.attributes[i].value

\* what a metadata request for token id i that reads the directory is
\* answered in the current state
Answer(i) == GET(dirExists, stored, ToDecimal(i), now, TRUE)

\* C6: whatever has been uploaded so far, a metadata request for a token id
\* is answered with a document; while no stored upload of that id exists its
\* image is <apiUrl>/api/image/<id> and its Image Type "Generated", and once
\* one exists its image is <apiUrl>/uploads/<a stored upload of that id> and
\* its Image Type "Uploaded".
C6_ImageFollowsUploads ==
    \A i \in UploadIds :
       LET doc == Answer(i).body
       IN  /\ Answer(i).status = 200
           /\ IF StoredFor(ToDecimal(i)) = {}
              THEN /\ doc.image = ApiBase \o <<"/", "a", "p", "i", "/", "i", "m", "a", "g", "e", "/">> \o ToDecimal(i)
                   /\ TraitValue(doc, "Image Type") = "Generated"
              ELSE /\ \E f \in StoredFor(ToDecimal(i)) :
                          doc.image = ApiBase \o <<"/", "u", "p", "l", "o", "a", "d", "s", "/">> \o f.name
                   /\ TraitValue(doc, "Image Type") = "Uploaded"

\* a request for token 1 was answered with an uploaded image while an upload
\* of token 12 is stored too
C6_Witness ==
    /\ lastGet.status = 200
    /\ lastGet.tokenId = <<"1">>
    /\ lastGet = Answer(1)
    /\ TraitValue(lastGet.body, "Image Type") = "Uploaded"
    /\ StoredFor(<<"1", "2">>) # {}

\* C7: there are as many stored files as uploads answered with success: no
\* upload replaced the file of an earlier one.
C7_UploadsNeverOverwrite == Cardinality(stored) = uploads

\* C8: when uploads of a token id are stored, a metadata request for it
\* resolves the image to one of them that has the greatest upload timestamp.
C8_ResolvesMostRecent ==
    \A i \in UploadIds :
       StoredFor(ToDecimal(i)) # {}
       => \E f \in StoredFor(ToDecimal(i)) :
             /\ \A g \in StoredFor(ToDecimal(i)) : g.timestamp <= f.timestamp
             /\ Answer(i).body.image = ApiBase \o <<"/", "u", "p", "l", "o", "a", "d", "s", "/">> \o f.name

(***************************************************************************)
(* Claims about switchNetwork                                              *)
(***************************************************************************)
Hex189 == <<"0", "x", "1", "8", "9">>

\* the requests of the running call, and how a call that ran stands
SwitchProtocol ==
    /\ sent # <<>> =>
          /\ sent[1].method = "wallet_switchEthereumChain"
          /\ sent[1].params.chainId = Hex189
    /\ \A k \in 1..Len(sent) :
          sent[k].method = "wallet_addEthereumChain"
          => /\ k = 2
             /\ sw.code = 4902
             /\ sent[k].params =
                  [chainId |-> Hex189,
                   rpcUrls |-> <<"https://rpc.nexus.xyz/http">>,
                   chainName |-> "Nexus Testnet",
                   nativeCurrency |-> [name |-> "NEXUS", symbol |-> "NEXUS", decimals |-> 18]]
             /\ sw.pc \in {"recheck", "done"} /\ Len(sent) > k
                   => sent[k + 1].method = "eth_chainId"
    /\ (sw.pc = "done" /\ sw.result) => sent[Len(sent)].method = "eth_chainId"

\* what a step of switchNetwork that ends the call does
SwitchOutcome ==
    (sw' # sw /\ sw'.pc = "done")
    => /\ sw'.result => (sw'.chainId = Hex189 /\ isCorrectNetwork')
       /\ sw'.chainId \notin {<<>>, Hex189} => (~sw'.result /\ ~isCorrectNetwork')
       /\ sw'.chainId # <<>> => (sw.pc = "recheck" /\ sw'.chainId = walletChain)
       /\ sw.pc \in {"switching", "adding"}
             => /\ sw'.chainId = <<>>
                /\ ~sw'.result
                /\ isCorrectNetwork' = isCorrectNetwork
                /\ sent' = sent
                /\ sw.pc = "switching"
                      => \A k \in 1..Len(sent') : sent'[k].method # "wallet_addEthereumChain"

C11_NoWriteOffTargetChain ==
    homeChain # Hex189 =>
        ~(OffersDeploy \/ OffersHomeMint \/ OffersHomeTransfer \/ OffersGalleryMint)

\* C12: the deploy flow records the collection (contract address, handle,
\* success status) and starts the navigation to the gallery only when the
\* deployment transaction and the setBaseURI transaction have both been
\* confirmed on chain
RecordsCollection == home.contractAddress # Deployed /\ home'.contractAddress = Deployed

StartsNavigation == nav = "landing" /\ nav' = "navigating"

C12_RecordsAfterConfirmation ==
    [][RecordsCollection \/ StartsNavigation =>
          net["deploy"] = "confirmed" /\ net["setBaseURI"] = "confirmed"]_vars

(***************************************************************************)
(* Claims about the deployment script                                      *)
(***************************************************************************)

\* C13: the deployment script exits with a non-zero status whenever a step
\* failed (NEXT_PUBLIC_API_URL missing, deployment failure, failure of the
\* smoke-test mint), and with status zero only when every step succeeded
C13_ExitStatusReflectsFailure ==
    script.exited => (script.exitStatus = 0 <=> script.failedAt = "none")

(***************************************************************************)
(* Claims about the upload endpoint's responses                            *)
(***************************************************************************)

\* the name the upload of request r is to be stored under
ExpectedName(r) ==
    IF posts[r].tokenId # <<>>
    THEN <<"t", "o", "k", "e", "n", "-">> \o posts[r].tokenId \o <<"-">>
            \o ToDecimal(posts[r].timestamp) \o <<"-">> \o posts[r].name
    ELSE ToDecimal(posts[r].timestamp) \o <<"-">> \o posts[r].name

Rejected(form) == ~form.file.present \/ ~startsWith(form.file.type, <<"i", "m", "a", "g", "e", "/">>)

\* a form without a file, or with a file that is not an image, is answered
\* 400 with an error body and nothing is stored or scheduled for storing
RejectsWith400 ==
    \A r \in Requests, form \in Forms :
       PostReceive(r, form) /\ Rejected(form)
       => /\ lastPost'.status = 400
          /\ lastPost'.error # ""
          /\ ~lastPost'.success
          /\ stored' = stored
          /\ posts' = posts

\* a success response names the file stored in that step
StoresOneNamedFile ==
    \A r \in Requests :
       PostWrite(r) /\ lastPost'.status = 200
       => /\ lastPost'.success
          /\ lastPost'.filename = <<"/", "u", "p", "l", "o", "a", "d", "s", "/">> \o ExpectedName(r)
          /\ \E f \in stored' : f.name = ExpectedName(r) /\ f.tokenId = posts[r].tokenId
          /\ \A f \in stored' : f.name # ExpectedName(r) => f \in stored
          /\ \A f \in stored : f.name # ExpectedName(r) => f \in stored'

\* C14: the upload endpoint answers 400 with an error body, storing nothing,
\* when the form has no file or the file's type does not begin with
\* "image/"; on success it stores one file named
\* token-<tokenId>-<millis>-<name> (token id supplied) or <millis>-<name>
\* and answers success with filename /uploads/<that name>
C14_UploadResponses == [][RejectsWith400 /\ StoresOneNamedFile]_vars

\* a tagged upload was stored and answered, and a later form was rejected
C14_Witness ==
    /\ lastPost.status = 400
    /\ \E f \in stored : f.tokenId = <<"1", "2">> /\ f.name = <<"t", "o", "k", "e", "n", "-", "1", "2", "-">> \o ToDecimal(f.timestamp) \o <<"-">> \o <<"a">>

(***************************************************************************)
(* Claims about the landing screen's session state                         *)
(***************************************************************************)

\* the session fields hold their initial values (an empty contract address
\* counts as the initial one whether it is '' or null)
SessionCleared(h) ==
    /\ ~h.isConnected
    /\ ~h.isCorrectNetwork
    /\ h.userAddress = InitialHome(variant).userAddress
    /\ Falsy(h.contractAddress)
    /\ h.nftContract = InitialHome(variant).nftContract
    /\ h.ownedNFTs = InitialHome(variant).ownedNFTs
    /\ h.uploadedImage = InitialHome(variant).uploadedImage
    /\ h.previewUrl = InitialHome(variant).previewUrl
    /\ h.status = InitialHome(variant).status
    /\ h.isMinting = InitialHome(variant).isMinting

\* C15: after Disconnect the connected address, the connection and
\* correct-network flags, the contract address and handle, the token list,
\* the staged image and its preview, the status text and the busy flag all
\* hold their initial values
C15_DisconnectClearsSession ==
    [][home.isConnected /\ ~home'.isConnected => SessionCleared(home')]_vars

\* a handler returns in this step
DeployEnds == dp.pc # "idle" /\ dp'.pc = "idle"

HomeMintEnds == mp.pc # "idle" /\ mp'.pc = "idle"

GalleryMintEnds == gpage.mint # "idle" /\ gpage'.mint = "idle"

\* no handler is running and the busy flags are clear
NoFlagLeftSet ==
    /\ dp.pc = "idle" /\ mp.pc = "idle" => ~home.isMinting
    /\ gpage.mint = "idle" => ~gpage.isMinting

C17_UploadOnlyAfterDeployment ==
    /\ \A k \in 1..Len(uploadLog) :
          uploadLog[k].confirmed /\ uploadLog[k].tokenId = <<"1">>
    /\ Len(uploadLog) <= deploys

\* the probe fails: a network error, or a status that is neither a success
\* nor the tolerated 400
ProbeFailure(resp) == resp \notin {"200", "400"}

\* a failed probe ends the action with an error status; nothing is sent
FailedProbeEndsAction ==
    \A resp \in ProbeResponses :
       DeployProbe(resp) /\ ProbeFailure(resp)
       => /\ dp'.pc = "idle"
          /\ home'.status \in {"Deployment failed", "Error"}
          /\ net' = net
          /\ uploadLog' = uploadLog

\* the deploy flow sends a transaction or an upload in this step
DeployFlowIssues ==
    \/ net["deploy"] # "sent" /\ net'["deploy"] = "sent"
    \/ net["setBaseURI"] # "sent" /\ net'["setBaseURI"] = "sent"
    \/ dp.pc = "upload" /\ uploadLog' # uploadLog

\* C18: deployNFT probes the API base URL first; when the probe fails the
\* action ends with an error status, and the deployment transaction, the
\* setBaseURI call and the upload are only ever issued by a run whose probe
\* passed
C18_ProbeBeforeChain ==
    [][/\ FailedProbeEndsAction
       /\ DeployFlowIssues => ~ProbeFailure(dp.probe) /\ dp.probe # "none"]_vars

\* the probe was answered 500 and the action is over with nothing sent
C18_Witness ==
    /\ dp.pc = "idle"
    /\ dp.probe = "500"
    /\ home.status = "Deployment failed"
    /\ deploys = 1
    /\ net["deploy"] = "none"
    /\ net["setBaseURI"] = "none"
    /\ uploadLog = <<>>

(***************************************************************************)
(* Claims about the metadata endpoint's responses                          *)
(***************************************************************************)

\* a response of the metadata endpoint is either a cached document with the
\* three attributes, or an uncached 500 with an error body
WellFormedResponse(resp) ==
    IF resp.status = 200
    THEN /\ resp.cacheControl = "public, max-age=31536000, immutable"
         /\ Len(resp.body.attributes) = 3
         /\ resp.body.attributes[1].trait_type = "Token ID"
         /\ resp.body.attributes[2].trait_type = "Image Type"
         /\ resp.body.attributes[3].trait_type = "Created"
         /\ validateMetadata(resp.body)
    ELSE /\ resp.status = 500
         /\ resp.cacheControl = ""
         /\ DOMAIN resp.body = {"error"}
         /\ resp.body.error # ""

\* C19: every successful metadata response carries the cache directive
\* "public, max-age=31536000, immutable" and exactly the attributes Token ID,
\* Image Type, Created; every failure is a 500 with an { error } body and no
\* cache directive; the handler always answers
C19_MetadataResponses ==
    /\ lastGet # NoGetResponse => WellFormedResponse(lastGet)
    /\ \A i \in UploadIds, readOk \in BOOLEAN :
          WellFormedResponse(GET(dirExists, stored, ToDecimal(i), now, readOk))

\* a request was answered 500 because the uploads directory could not be
\* read, while uploads are stored
C19_Witness ==
    /\ lastGet.status = 500
    /\ lastGet.cacheControl = ""
    /\ stored # {}
    /\ Answer(1).status = 200

(***************************************************************************)
(* Claims about the metadata freeze                                        *)
(***************************************************************************)

\* the freeze is owner only
FreezeOwnerOnly ==
    \A c \in Clients :
       CallFreeze(c)
       => IF ClientAddr(c) = chain.owner
          THEN lastReceipt'.status = "ok" /\ chain'.frozen
          ELSE lastReceipt'.status # "ok" /\ chain' = chain

\* once frozen, setBaseURI fails whoever calls it
FrozenRejectsSetBaseURI ==
    \A c \in Clients, uri \in {UriOne, UriTwo} :
       chain.frozen /\ CallSetBaseURI(c, uri)
       => lastReceipt'.status # "ok" /\ chain' = chain

\* once frozen, always frozen, with the same base URI and the same tokenURI
\* for every token minted so far
FrozenForGood ==
    chain.frozen
    => /\ chain'.frozen
       /\ chain'.baseURI = chain.baseURI
       /\ \A t \in 1..chain.totalSupply : tokenURI(chain', t) = tokenURI(chain, t)

\* C20: the collection has an owner-only, one-way metadata freeze: after it
\* every setBaseURI call fails, the base URI and every tokenURI stay as they
\* are, and no operation unfreezes it
C20_FreezeIsPermanent ==
    [][FreezeOwnerOnly /\ FrozenRejectsSetBaseURI /\ FrozenForGood]_vars

\* the owner set a base URI, minted, froze, and a later setBaseURI by the
\* owner was refused
C20_Witness ==
    /\ chain.frozen
    /\ chain.baseURI = UriOne
    /\ chain.totalSupply >= 1
    /\ lastReceipt.op = "setBaseURI"
    /\ lastReceipt.client = "tab1"
    /\ lastReceipt.status = "Frozen"

(***************************************************************************)
(* Claims about the symbol's shape                                         *)
(***************************************************************************)

\* C30: for every name, generateNFTSymbol returns (it does not throw) a
\* symbol of one to four characters none of which is a lowercase letter;
\* names that begin or end with whitespace, hold only whitespace or hold
\* only special characters included
C30_SymbolAlwaysWellFormed ==
    symResult # NotCalled
    => /\ symResult.kind = "ok"
       /\ Len(symResult.value) \in 1..4
       /\ \A i \in 1..Len(symResult.value) : symResult.value[i] \notin LowerLetters

(***************************************************************************)
(* Claims about Home's wallet subscriptions                                *)
(***************************************************************************)

\* the listeners of an event are exactly the one function h
OnlyListener(event, h) == ethereum.listeners[event] = <<h>>

\* while Home is mounted with a provider, one listener per event, and it is
\* the current checkNetwork / checkWalletConnection; after teardown none
Subscriptions ==
    IF sess.mounted /\ ethereum.present
    THEN /\ OnlyListener("chainChanged", Handler("checkNetwork", sess.checkNetwork))
         /\ OnlyListener("accountsChanged",
                         Handler("checkWalletConnection", sess.checkWalletConnection))
    ELSE ethereum.listeners = NoListeners

\* an event emitted while Home is mounted runs its check once, and the
\* network flag afterwards is the one checkNetwork computes from the wallet
EventRunsCheck ==
    /\ \A c \in {NEXUS_CHAIN_ID_HEX, OtherChainHex} :
          EmitChainChanged(c) /\ sess.mounted
          => /\ ran'.handlers = <<Handler("checkNetwork", sess.checkNetwork)>>
             /\ sess'.isCorrectNetwork = (c = NEXUS_CHAIN_ID_HEX)
    /\ \A accounts \in AccountLists :
          EmitAccountsChanged(accounts) /\ sess.mounted
          => ran'.handlers = <<Handler("checkWalletConnection", sess.checkWalletConnection)>>
    /\ \A c \in {NEXUS_CHAIN_ID_HEX, OtherChainHex}, accounts \in AccountLists :
          (EmitChainChanged(c) \/ EmitAccountsChanged(accounts)) /\ ~sess.mounted
          => ran'.handlers = <<>> /\ sess' = sess

\* C21: while the landing screen is mounted exactly one handler is registered
\* for chainChanged and one for accountsChanged, each event re-runs the
\* network check or the account check, and after teardown no handler of the
\* screen is registered with the provider
C21_OneSubscriptionPerEvent == []Subscriptions /\ [][EventRunsCheck]_vars

\* Home was mounted, rendered again, unmounted and mounted again, and a
\* chainChanged event then ran the one checkNetwork registered
C21_Witness ==
    /\ sess.mounted
    /\ sess.gen = MaxGen
    /\ sess.checkNetwork = MaxGen
    /\ ran.event = "chainChanged"
    /\ ran.handlers = <<Handler("checkNetwork", MaxGen)>>
    /\ sess.isCorrectNetwork

\* the session agrees with the wallet's authorized accounts
SessionMatchesWallet(s, eth) ==
    IF eth.accounts = <<>>
    THEN ~s.isConnected /\ s.userAddress = ""
    ELSE s.userAddress = eth.accounts[1]

\* C28: after the landing screen has handled an accountsChanged event the
\* stored user address is the wallet's first authorized account, and with no
\* authorized account the screen is not connected and holds no address
C28_SessionFollowsAccounts ==
    [][\A accounts \in AccountLists :
          EmitAccountsChanged(accounts) /\ sess.mounted
          => SessionMatchesWallet(sess', ethereum')]_vars

(***************************************************************************)
(* Claims about the status area                                            *)
(***************************************************************************)

Shown == formatStatusDisplay(stat.screen, stat.text)

\* C22: after a confirmed mint on the gallery screen the token id shown in
\* the success view ("NFT #<id> minted") is the token id of the mint's
\* Transfer event
C22_StatusShowsMintedId ==
    (stat.screen = "gallery" /\ stat.op = "mint" /\ stat.phase = "success")
    => Shown = View("mintSuccess", stat.args.tokenId)

\* C23: the success view is shown only for a confirmed mint or deployment,
\* the spinner only while the action is running, and every failure message
\* is shown as plain text
C23_StatusViewMatchesOutcome ==
    /\ Shown.view \in {"mintSuccess", "deploySuccess"} => stat.phase = "success"
    /\ Shown.view = "mintSuccess" => stat.op = "mint"
    /\ Shown.view = "deploySuccess" => stat.op = "deploy"
    /\ Shown.view = "spinner" => stat.phase \in {"initiating", "sending", "sent"}
    /\ stat.phase = "failed" => Shown.view = "text"

(***************************************************************************)
(* Claims about the deployment's gas limit                                 *)
(***************************************************************************)

\* C24: the deployment transaction's gas limit is floor(estimate * 120 / 100)
\* when the estimate succeeds and 3,000,000 when it fails, and a failed
\* estimate never aborts the deployment
C24_GasLimitWithMargin ==
    gas.pc = "done"
    => /\ gas.sent /\ ~gas.aborted
       /\ gas.gasLimit = IF gas.estimate.ok
                         THEN (gas.estimate.gasUsed * 120) \div 100
                         ELSE FixedGasLimit

(***************************************************************************)
(* Claims about the card's transfer form                                   *)
(***************************************************************************)

\* a submission with a recipient calls onTransfer once, with that recipient;
\* a submission with the field empty calls nothing and changes no state
SubmitCallsOnce ==
    CardSubmit
    => IF xcard.transferAddress # ""
       THEN xcard'.calls = Append(xcard.calls, xcard.transferAddress)
       ELSE /\ xcard'.calls = xcard.calls
            /\ xcard'.runs = xcard.runs
            /\ xcard'.transferAddress = xcard.transferAddress
            /\ xcard'.isTransferring = xcard.isTransferring

\* when the callback settles the flag is false, and the field is empty if
\* the transfer went through
SettleCleansUp ==
    \A k \in 1..MaxSubmits, outcome \in TransferOutcomes :
       CardSettle(k, outcome)
       => /\ ~xcard'.isTransferring
          /\ outcome = "transferred" => xcard'.transferAddress = ""

\* C25: in the NFT card, submitting a non-empty recipient calls the transfer
\* callback exactly once; the field is cleared when the transfer succeeded and
\* the in-progress flag is false after the callback settles, success or
\* failure; submitting an empty recipient calls nothing and changes no state
C25_CardTransferCleanup == [][SubmitCallsOnce /\ SettleCleansUp]_vars

\* two submissions overlapped; one transfer went through, the other was
\* rejected by the callback, and an empty submission was made as well
C25_Witness ==
    /\ Len(xcard.runs) = 2
    /\ xcard.runs[1] = "rejected"
    /\ xcard.runs[2] = "transferred"
    /\ xcard.submits = 3
    /\ ~xcard.isTransferring
    /\ xcard.transferAddress = ""

(***************************************************************************)
(* Claims about the script's smoke test                                    *)
(***************************************************************************)

GalleryQuiet == \A p \in Procs : procs[p].pc = "idle"

\* C27: on the gallery screen, once every in-flight mint, transfer and
\* gallery fetch has completed, the displayed list has exactly one entry for
\* each token id 1..totalSupply of the chain at that moment, also when two
\* fetches overlapped.  Stated for the runs whose last total-supply read
\* succeeded: a fetch that could not read the supply stores no list
C27_ListMatchesSupplyWhenQuiet ==
    (gScreen = "gallery" /\ GalleryQuiet /\ lastFetchStep.supplyRead)
    => ListsExactly(nfts, totalSupply(chain))

\* the metadata a viewer of `collection` is served for its token i: the
\* gallery requests tokenURI(i) = baseURI + i, every collection the landing
\* screen deploys has the base URI <apiUrl>/api/metadata/, and so the request
\* names the token id and nothing of the collection
MetadataServed(collection, i) == Answer(i).body

\* C29: an upload made with contract address A leaves the metadata served
\* for every token of every other collection B as it was: the step that
\* stores the upload changes the document of no token of B
C29_UploadsStayInCollection ==
    [][\A r \in Requests :
          PostWrite(r)
          => \A B \in UploadCollections \ {contractAddr(r)}, i \in UploadIds :
                MetadataServed(B, i)' = MetadataServed(B, i)]_vars

====
